---- MODULE Spec2Model ----
(***************************************************************************)
(* Rulebook compiler of fvtt-risklegacy-v2 (src/server/rules).             *)
(*                                                                         *)
(* RulebookBuilder keeps three caches (baseRules, modifierCache,           *)
(* compiledCache).  buildCampaignRulebook is an async method: it runs      *)
(* synchronously up to each await and other requests interleave there, so  *)
(* every call is modelled as a process whose steps are the code between    *)
(* two awaits.  JavaScript objects are kept in a heap of addresses, so     *)
(* that sharing between the compiled rulebook, the cached pack documents   *)
(* and the base rulebook is visible.  Strings that the code concatenates,  *)
(* sorts or prefix-matches (campaign ids, pack names, cache keys, version  *)
(* strings) are sequences of one-character strings.                        *)
(***************************************************************************)
EXTENDS Integers, Sequences, FiniteSets, TLC

VARIABLES
    heap,           \* address -> object (rulebook, section, subsection)
    baseRules,      \* RulebookBuilder.baseRules: 0 (null) or a rulebook address
    modifierCache,  \* RulebookBuilder.modifierCache: pack name -> PackModifiers
    compiledCache,  \* RulebookBuilder.compiledCache: cache key -> CampaignRulebook id
    rulebooks,      \* CampaignRulebook objects, by id (the id of the creating call)
    calls,          \* buildCampaignRulebook invocations, in order of their start
    baseFile,       \* content store: state of base-rules.json
    packFiles,      \* content store: pack name -> state of modifiers/<pack>.json
    lastReturn,     \* history: last call that returned, 0 after a cache clear
    cleared,        \* history: what existed when clearCache() last ran, and the clears so far
    clears,         \* history: number of cache clears so far
    trial,          \* applyModifier on its own: the rulebook and the last application
    topology,       \* the BoardTopology instance (or the outcome of its constructor)
    answer,         \* the last BoardTopology query and what it returned
    users,          \* the User table of the database, in order of creation
    requests,       \* requests to the auth routes, in order of arrival
    clock           \* Date.now(), in seconds

vars == << heap, baseRules, modifierCache, compiledCache, rulebooks, calls,
           baseFile, packFiles, lastReturn, cleared, clears, trial, topology, answer,
           users, requests, clock >>

\* the variables of the auth routes
auth == << users, requests, clock >>

\* the variables RulebookBuilder does not touch
outside == << trial, topology, answer, auth >>

-----------------------------------------------------------------------------
(* Bounds of the model.                                                    *)

\* buildCampaignRulebook invocations per behaviour
MaxCalls == 2

\* length of an unlockedPacks list
MaxPacks == 2

\* clearCache / clearCampaignCache invocations per behaviour
MaxClears == 1

-----------------------------------------------------------------------------
(* Strings.                                                                *)

\* UTF-16 code unit of a character (the order String comparison uses)
CharCode(ch) ==
    CASE ch = "+" -> 43
      [] ch = "," -> 44
      [] ch = "." -> 46
      [] ch = "0" -> 48
      [] ch = "1" -> 49
      [] ch = ":" -> 58
      [] ch = "a" -> 97
      [] ch = "b" -> 98
      [] ch = "c" -> 99
      [] ch = "m" -> 109
      [] ch = "x" -> 120
      [] OTHER -> 0

Min(a, b) == IF a < b THEN a ELSE b

\* s < t in code-unit order (the default comparison of Array.prototype.sort)
StrLess(s, t) ==
    \E i \in 1..(Min(Len(s), Len(t)) + 1) :
        /\ \A j \in 1..(i - 1) : s[j] = t[j]
        /\ \/ i > Len(s) /\ i <= Len(t)
           \/ i <= Len(s) /\ i <= Len(t) /\ CharCode(s[i]) < CharCode(t[i])

RECURSIVE InsertSorted(_, _)
InsertSorted(x, sorted) ==
    IF sorted = << >> THEN << x >>
    ELSE IF StrLess(x, Head(sorted)) THEN << x >> \o sorted
    ELSE << Head(sorted) >> \o InsertSorted(x, Tail(sorted))

\* mutant of ArraySort: the array is left as it is
ArrayUnsorted(arr) == arr

\* Array.prototype.sort() with no comparator: ascending code-unit order, stable
RECURSIVE ArraySort(_)
ArraySort(arr) ==
    IF arr = << >> THEN << >>
    ELSE InsertSorted(arr[Len(arr)], ArraySort(SubSeq(arr, 1, Len(arr) - 1)))

\* Array.prototype.join(sep)
RECURSIVE Join(_, _)
Join(arr, sep) ==
    IF arr = << >> THEN << >>
    ELSE IF Len(arr) = 1 THEN arr[1]
    ELSE arr[1] \o sep \o Join(Tail(arr), sep)

\* String.prototype.startsWith
StartsWith(s, prefix) ==
    /\ Len(prefix) <= Len(s)
    /\ SubSeq(s, 1, Len(prefix)) = prefix

-----------------------------------------------------------------------------
(* Plain objects used as maps: a sequence of [key, ref] entries in         *)
(* insertion order (the order Object.values / Object.entries enumerate).   *)

MapHas(m, k) == \E i \in 1..Len(m) : m[i].key = k

\* m[k], 0 when the key is absent (undefined)
MapGet(m, k) ==
    IF MapHas(m, k)
    THEN m[CHOOSE i \in 1..Len(m) : m[i].key = k].ref
    ELSE 0

\* mutant of MapSet: an existing key keeps its value
MapSetIfAbsent(m, k, ref) ==
    IF MapHas(m, k) THEN m ELSE Append(m, [key |-> k, ref |-> ref])

\* m[k] = ref: an existing key keeps its position, a new key goes last
MapSet(m, k, ref) ==
    IF MapHas(m, k)
    THEN [i \in 1..Len(m) |-> IF m[i].key = k THEN [key |-> k, ref |-> ref] ELSE m[i]]
    ELSE Append(m, [key |-> k, ref |-> ref])

\* Plain objects inherit from Object.prototype: obj[k] with k not an own
\* key still finds the inherited members.  `constructor` stands for them;
\* its value is the function Object, kept in the heap at this address.
ObjectConstructor == 1

InheritedKeys == { "constructor" }

GlobalObjects == ObjectConstructor :> [kind |-> "function"]

\* obj[k]: the own property, else the inherited one, else 0 (undefined)
PropertyGet(m, k) ==
    IF MapHas(m, k) THEN MapGet(m, k)
    ELSE IF k \in InheritedKeys THEN ObjectConstructor
    ELSE 0

\* obj.field = value on a record that may lack the field
WithField(obj, field, value) ==
    [f \in DOMAIN obj \cup { field } |-> IF f = field THEN value ELSE obj[f]]

-----------------------------------------------------------------------------
(* Documents (JSON values) and their objects in the heap.                  *)

Rule(id, text) ==
    [id |-> id, text |-> text, priority |-> 1, modifiers |-> << >>, tags |-> << >>,
     applies_to |-> "all"]

\* mutant of SubsectionObject: a document without rules stays without rules
SubsectionObjectNoDefault(doc) ==
    IF "rules" \in DOMAIN doc
    THEN [kind |-> "subsection", title |-> doc.title, rules |-> doc.rules]
    ELSE [kind |-> "subsection", title |-> doc.title]

\* JSON.parse + SubsectionSchema.parse of a subsection document; rules
\* defaults to the empty list
SubsectionObject(doc) ==
    [kind |-> "subsection", title |-> doc.title,
     rules |-> IF "rules" \in DOMAIN doc THEN doc.rules ELSE << >>]

\* Fresh objects get the addresses after `at`; every parse or clone of a
\* call allocates in a range of its own (see Region), so that an address
\* names an object regardless of how the calls interleave.

\* JSON.parse + SectionSchema.parse of a section document: fresh objects
\* for the section and each of its subsections
MaterializeSection(h, doc, at) ==
    LET subs == doc.subsections
        n    == Len(subs)
        map  == [i \in 1..n |-> [key |-> subs[i].key, ref |-> at + i]]
    IN  [heap |-> [a \in (at + 1)..(at + n) |-> SubsectionObject(subs[a - at].value)]
                  @@ ((at + n + 1) :> [kind |-> "section", id |-> doc.id,
                                       title |-> doc.title, subsections |-> map])
                  @@ h,
         ref  |-> at + n + 1]

RECURSIVE MaterializeSections(_, _, _, _)
MaterializeSections(h, secs, map, at) ==
    IF secs = << >> THEN [heap |-> h, map |-> map, at |-> at]
    ELSE LET r == MaterializeSection(h, Head(secs).value, at)
         IN  MaterializeSections(r.heap, Tail(secs),
                                 Append(map, [key |-> Head(secs).key, ref |-> r.ref]),
                                 r.ref)

\* JSON.parse + RulebookSchema.parse of a rulebook document
MaterializeRulebook(h, doc, at) ==
    LET r == MaterializeSections(h, doc.sections, << >>, at)
    IN  [heap |-> ((r.at + 1) :> [kind |-> "rulebook", version |-> doc.version,
                                  lastUpdated |-> doc.lastUpdated,
                                  sections |-> r.map])
                  @@ r.heap,
         ref  |-> r.at + 1]

\* JSON.stringify of the objects reachable from an address
SerializeSubsection(h, a) ==
    IF "rules" \in DOMAIN h[a]
    THEN [title |-> h[a].title, rules |-> h[a].rules]
    ELSE [title |-> h[a].title]

SerializeSection(h, a) ==
    [id |-> h[a].id, title |-> h[a].title,
     subsections |-> [i \in 1..Len(h[a].subsections) |->
                        [key   |-> h[a].subsections[i].key,
                         value |-> SerializeSubsection(h, h[a].subsections[i].ref)]]]

SerializeSections(h, a) ==
    [i \in 1..Len(h[a].sections) |->
        [key   |-> h[a].sections[i].key,
         value |-> SerializeSection(h, h[a].sections[i].ref)]]

SerializeRulebook(h, a) ==
    [version |-> h[a].version, lastUpdated |-> h[a].lastUpdated,
     sections |-> SerializeSections(h, a)]

-----------------------------------------------------------------------------
(* Pack modifier documents.  A modifier that carries section or subsection *)
(* data refers to it by address once the document is parsed.               *)

\* the keys ModifyRuleModifierSchema keeps in changes; z.object strips the rest
ChangeKeys == { "text", "priority", "tags", "phase", "applies_to" }

\* JSON.parse + RuleModifierSchema.parse of one modifier
MaterializeModifier(h, m, at) ==
    IF m.type \in {"add_section", "replace_section"}
    THEN LET r == MaterializeSection(h, m.data, at)
         IN  [heap |-> r.heap, mod |-> [m EXCEPT !.data = r.ref], at |-> r.ref]
    ELSE IF m.type = "add_subsection"
    THEN [heap |-> ((at + 1) :> SubsectionObject(m.data)) @@ h,
          mod  |-> [m EXCEPT !.data = at + 1], at |-> at + 1]
    ELSE IF m.type = "modify_rule"
    THEN [heap |-> h,
          mod  |-> [m EXCEPT !.changes =
                        [f \in DOMAIN @ \cap ChangeKeys |-> m.changes[f]]],
          at   |-> at]
    ELSE [heap |-> h, mod |-> m, at |-> at]

RECURSIVE MaterializeModifiers(_, _, _, _)
MaterializeModifiers(h, mods, acc, at) ==
    IF mods = << >> THEN [heap |-> h, mods |-> acc]
    ELSE LET r == MaterializeModifier(h, Head(mods), at)
         IN  MaterializeModifiers(r.heap, Tail(mods), Append(acc, r.mod), r.at)

\* JSON.parse + PackModifiersSchema.parse of a pack document
MaterializePack(h, doc, at) ==
    LET r == MaterializeModifiers(h, doc.modifiers, << >>, at)
    IN  [heap |-> r.heap,
         pack |-> [pack |-> doc.pack, name |-> doc.name,
                   description |-> doc.description, modifiers |-> r.mods]]

-----------------------------------------------------------------------------
(* applyModifier.                                                          *)

\* Array.prototype.findIndex(r => r.id === ruleId), 1-based; 0 for -1
FindIndex(rules, ruleId) ==
    IF \E i \in 1..Len(rules) : rules[i].id = ruleId
    THEN CHOOSE i \in 1..Len(rules) :
            /\ rules[i].id = ruleId
            /\ \A j \in 1..(i - 1) : rules[j].id # ruleId
    ELSE 0

\* the subsection objects of the given section entries, in the order the
\* nested for-of loops over Object.values visit them
RECURSIVE SubsectionRefs(_, _)
SubsectionRefs(h, secs) ==
    IF secs = << >> THEN << >>
    ELSE [i \in 1..Len(h[Head(secs).ref].subsections) |->
              h[Head(secs).ref].subsections[i].ref]
         \o SubsectionRefs(h, Tail(secs))

\* subsection.rules, the empty list when the property is absent
RulesOf(h, a) == IF "rules" \in DOMAIN h[a] THEN h[a].rules ELSE << >>

\* section.subsections, the empty map when the property is absent
SubsectionsOf(h, a) == IF "subsections" \in DOMAIN h[a] THEN h[a].subsections ELSE << >>

\* the first subsection visited that holds a rule with the id; 0 when none does
FirstHolder(h, rb, ruleId) ==
    LET refs == SubsectionRefs(h, h[rb].sections)
    IN  IF \E i \in 1..Len(refs) : FindIndex(RulesOf(h, refs[i]), ruleId) > 0
        THEN refs[CHOOSE i \in 1..Len(refs) :
                    /\ FindIndex(RulesOf(h, refs[i]), ruleId) > 0
                    /\ \A j \in 1..(i - 1) : FindIndex(RulesOf(h, refs[j]), ruleId) = 0]
        ELSE 0

\* mutant of ModifiedRule: the spreads the other way round
ModifiedRuleKept(rule, changes) ==
    LET spread == [f \in DOMAIN rule \cup DOMAIN changes |->
                      IF f \in DOMAIN rule THEN rule[f] ELSE changes[f]]
    IN  [spread EXCEPT !.modifiers = Append(rule.modifiers, "modified")]

\* { ...rule, ...modifier.changes, modifiers: [...rule.modifiers, 'modified'] }
ModifiedRule(rule, changes) ==
    LET spread == [f \in DOMAIN rule \cup DOMAIN changes |->
                      IF f \in DOMAIN changes THEN changes[f] ELSE rule[f]]
    IN  [spread EXCEPT !.modifiers = Append(rule.modifiers, "modified")]

\* mutant of Splice1: splice(index), which drops the rest of the array
SpliceRest(arr, index) == SubSeq(arr, 1, index - 1)

\* Array.prototype.splice(index, 1)
Splice1(arr, index) == SubSeq(arr, 1, index - 1) \o SubSeq(arr, index + 1, Len(arr))

\* whether applyModifier(rulebook, modifier) ends in a TypeError.  The
\* branches that look a target up test it before using it (if, ?.), and
\* modify_rule skips a subsection without rules; remove_rule calls
\* subsection.rules.findIndex on every subsection it visits, up to the
\* first one that holds the rule.
applyModifierThrows(h, rb, m) ==
    /\ m.type = "remove_rule"
    /\ LET refs == SubsectionRefs(h, h[rb].sections)
       IN  \E i \in 1..Len(refs) :
              /\ "rules" \notin DOMAIN h[refs[i]]
              /\ \A j \in 1..(i - 1) : FindIndex(RulesOf(h, refs[j]), m.rule_id) = 0

\* applyModifier(rulebook, modifier): the heap after the call; rb is the
\* address of the rulebook it works on
applyModifier(h, rb, m) ==
    CASE m.type \in {"add_section", "replace_section"} ->
            [h EXCEPT ![rb].sections = MapSet(@, m.section_id, m.data)]
      [] m.type = "add_subsection" ->
            LET targetSection == PropertyGet(h[rb].sections, m.section_id)
            IN  IF targetSection # 0
                THEN [h EXCEPT ![targetSection] =
                        WithField(@, "subsections",
                                  MapSet(SubsectionsOf(h, targetSection),
                                         m.subsection_id, m.data))]
                ELSE h
      [] m.type = "add_rule" ->
            LET targetSection == PropertyGet(h[rb].sections, m.section_id)
                targetSubsection ==
                    IF targetSection # 0 /\ "subsections" \in DOMAIN h[targetSection]
                    THEN PropertyGet(h[targetSection].subsections, m.subsection_id)
                    ELSE 0
            IN  IF targetSubsection # 0
                THEN [h EXCEPT ![targetSubsection] =
                        WithField(@, "rules", Append(RulesOf(h, targetSubsection), m.rule))]
                ELSE h
      [] m.type = "modify_rule" ->
            LET subsection == FirstHolder(h, rb, m.rule_id)
            IN  IF subsection # 0
                THEN LET ruleIndex == FindIndex(h[subsection].rules, m.rule_id)
                     IN  [h EXCEPT ![subsection].rules[ruleIndex] =
                                        ModifiedRule(@, m.changes)]
                ELSE h
      [] m.type = "remove_rule" ->
            LET subsection == FirstHolder(h, rb, m.rule_id)
            IN  IF subsection # 0
                THEN [h EXCEPT ![subsection].rules =
                                    Splice1(@, FindIndex(@, m.rule_id))]
                ELSE h
      [] OTHER -> h

\* for (const modifier of packModifiers.modifiers) this.applyModifier(...)
RECURSIVE ApplyAll(_, _, _)
ApplyAll(h, rb, mods) ==
    IF mods = << >> THEN h
    ELSE ApplyAll(applyModifier(h, rb, Head(mods)), rb, Tail(mods))

\* mutant of DeepClone: the working copy is the base rulebook itself
NoClone(h, a, at) == [heap |-> h, ref |-> a]

\* JSON.parse(JSON.stringify(baseRules)): a fresh copy of everything reachable
DeepClone(h, a, at) == MaterializeRulebook(h, SerializeRulebook(h, a), at)

-----------------------------------------------------------------------------
(* The content store: base-rules.json and modifiers/<pack>.json.           *)

BaseVersion == << "1", ".", "0", ".", "0" >>

\* metadata.lastUpdated of base-rules.json, and what new Date().toISOString()
\* gives during a build (a later instant)
BaseDate == "2025-01-01"
BuildDate == "2025-11-04"

BaseDoc ==
    [version |-> BaseVersion, lastUpdated |-> BaseDate,
     sections |-> <<
        [key |-> "combat", value |->
            [id |-> "combat", title |-> "Combat", subsections |-> <<
                [key |-> "attacking", value |->
                    [title |-> "Attacking",
                     rules |-> << Rule("r1", << "a" >>), Rule("r2", << "b" >>) >>]] >>]],
        [key |-> "setup", value |->
            [id |-> "setup", title |-> "Setup", subsections |-> <<
                [key |-> "placement", value |->
                    [title |-> "Placement",
                     rules |-> << Rule("r3", << "c" >>) >>]] >>]] >>]

PackA ==
    [pack |-> << "a" >>, name |-> << "A" >>, description |-> "rule changes",
     modifiers |-> <<
        [type |-> "modify_rule", rule_id |-> "r1", changes |-> [text |-> << "a", "a" >>]],
        [type |-> "add_subsection", section_id |-> "combat", subsection_id |-> "defending",
         data |-> [title |-> "Defending", rules |-> << Rule("r4", << "a", "b" >>) >>]],
        [type |-> "remove_rule", rule_id |-> "r2"] >>]

PackB ==
    [pack |-> << "b" >>, name |-> << "B" >>, description |-> "new combat section",
     modifiers |-> <<
        [type |-> "replace_section", section_id |-> "combat",
         data |-> [id |-> "combat", title |-> "Combat II", subsections |-> <<
                    [key |-> "attacking", value |->
                        [title |-> "Attacking II",
                         rules |-> << Rule("r1", << "b", "b" >>) >>]] >>]],
        [type |-> "add_rule", section_id |-> "combat", subsection_id |-> "attacking",
         rule |-> Rule("r5", << "b", "a" >>)],
        [type |-> "add_section", section_id |-> "missions",
         data |-> [id |-> "missions", title |-> "Missions", subsections |-> <<
                    [key |-> "private_missions", value |->
                        [title |-> "Private", rules |-> << >>]] >>]] >>]

\* the document of a pack authored after the server started
LatePack(packName) ==
    [pack |-> packName, name |-> << "M" >>, description |-> "authored later",
     modifiers |-> <<
        [type |-> "modify_rule", rule_id |-> "r1", changes |-> [text |-> << "b" >>]] >>]

\* pack names a request may carry (any string): two authored packs, one
\* with no file, one whose file fails schema validation, and one with no
\* file whose name holds the separator of the cache key
PackNames == { << "a" >>, << "b" >>, << "m" >>, << "x" >>, << "a", ",", "b" >> }

\* modifiers/<packName>.json as readFile + JSON.parse + PackModifiersSchema see it
PackFile(packName) ==
    CASE packName = << "a" >> -> [status |-> "valid", doc |-> PackA]
      [] packName = << "b" >> -> [status |-> "valid", doc |-> PackB]
      [] packName = << "x" >> -> [status |-> "invalid"]
      [] OTHER -> [status |-> "missing"]

\* campaign ids a request may carry (any string)
CampaignIds == { << "c" >>, << "c", ":", "a" >> }

RECURSIVE SeqsUpTo(_, _)
SeqsUpTo(S, n) ==
    IF n = 0 THEN { << >> }
    ELSE SeqsUpTo(S, n - 1) \cup
         { Append(s, x) : s \in { t \in SeqsUpTo(S, n - 1) : Len(t) = n - 1 }, x \in S }

PackLists == SeqsUpTo(PackNames, MaxPacks)

\* the authored packs alone, for the interleaved specification
AuthoredPackLists == SeqsUpTo({ p \in PackNames : PackFile(p).status = "valid" }, MaxPacks)

-----------------------------------------------------------------------------
(* RulebookBuilder.                                                        *)

\* where the objects allocated by call `id` go: slot 0 its parse of the base
\* rules, slot 1 its deep clone, slot 1 + i its parse of its i-th pack
Region(id, slot) == id * 100 + slot * 20

\* `${campaignId}:${sortedPacks.join(',')}`
CacheKey(campaignId, sortedPacks) ==
    campaignId \o << ":" >> \o Join(sortedPacks, << "," >>)

\* the value loadPackModifiers returns from its catch block
EmptyPackModifiers(packName) ==
    [pack |-> packName, name |-> packName,
     description |-> "No modifiers available", modifiers |-> << >>]

\* a call record before anything was awaited
NewCall(campaignId, packsArg, sortedPacks) ==
    [pc               |-> "start",
     campaignId       |-> campaignId,
     packsArg         |-> packsArg,       \* the list as the caller wrote it
     unlockedPacks    |-> sortedPacks,    \* the caller's array as it is now
     cacheKey         |-> CacheKey(campaignId, sortedPacks),
     baseRules        |-> 0,
     compiledRulebook |-> 0,
     allModifiers     |-> << >>,
     i                |-> 1,              \* position of the for-of loop
     packModifiers    |-> EmptyPackModifiers(<< >>),
     result           |-> 0,
     prevReturn       |-> lastReturn,     \* history: lastReturn at the start
     repoCalls        |-> 0,              \* history: loadBaseRules/loadPackModifiers calls
     applied          |-> 0]              \* history: applyModifier calls

\* loadPackModifiers(packName) up to its first await
CallLoadPackModifiers(c, packName) ==
    IF packName \in DOMAIN modifierCache
    THEN [c EXCEPT !.pc = "awaitPack", !.packModifiers = modifierCache[packName],
                   !.repoCalls = @ + 1]
    ELSE [c EXCEPT !.pc = "readPack", !.repoCalls = @ + 1]

\* the version string of buildCampaignRulebook
VersionString(baseVersion, unlockedPacks) ==
    IF Len(unlockedPacks) > 0
    THEN baseVersion \o << "+" >> \o Join(unlockedPacks, << "+" >>)
    ELSE baseVersion

\* mutant of Proceed: the compiled rulebook is returned but not cached
ProceedNoStore(id, c, h) ==
    IF c.i <= Len(c.unlockedPacks)
    THEN /\ calls' = [calls EXCEPT ![id] = CallLoadPackModifiers(c, c.unlockedPacks[c.i])]
         /\ heap' = h
         /\ UNCHANGED << rulebooks, compiledCache, lastReturn >>
    ELSE /\ heap' = [h EXCEPT ![c.compiledRulebook].lastUpdated = BuildDate]
         /\ rulebooks' =
                (id :> [campaignId       |-> c.campaignId,
                        baseRules        |-> c.baseRules,
                        unlockedPacks    |-> c.unlockedPacks,
                        modifiers        |-> c.allModifiers,
                        compiledRulebook |-> c.compiledRulebook,
                        version          |-> VersionString(h[c.baseRules].version,
                                                           c.unlockedPacks),
                        returned         |-> SerializeSections(h, c.compiledRulebook)])
                @@ rulebooks
         /\ UNCHANGED compiledCache
         /\ calls' = [calls EXCEPT ![id] = [c EXCEPT !.pc = "done", !.result = id]]
         /\ lastReturn' = id

\* the for-of loop of buildCampaignRulebook from position c.i on, up to the
\* next await or the return; h is the heap so far
Proceed(id, c, h) ==
    IF c.i <= Len(c.unlockedPacks)
    THEN /\ calls' = [calls EXCEPT ![id] = CallLoadPackModifiers(c, c.unlockedPacks[c.i])]
         /\ heap' = h
         /\ UNCHANGED << rulebooks, compiledCache, lastReturn >>
    ELSE /\ heap' = [h EXCEPT ![c.compiledRulebook].lastUpdated = BuildDate]
         /\ rulebooks' =
                (id :> [campaignId       |-> c.campaignId,
                        baseRules        |-> c.baseRules,
                        unlockedPacks    |-> c.unlockedPacks,
                        modifiers        |-> c.allModifiers,
                        compiledRulebook |-> c.compiledRulebook,
                        version          |-> VersionString(h[c.baseRules].version,
                                                           c.unlockedPacks),
                        \* history: the compiled sections as they were returned
                        returned         |-> SerializeSections(h, c.compiledRulebook)])
                @@ rulebooks
         /\ compiledCache' = (c.cacheKey :> id) @@ compiledCache
         /\ calls' = [calls EXCEPT ![id] = [c EXCEPT !.pc = "done", !.result = id]]
         /\ lastReturn' = id

\* buildCampaignRulebook(campaignId, unlockedPacks) up to its first await:
\* sorts the caller's array in place, returns the cached rulebook on a hit,
\* otherwise calls loadBaseRules
BuildCampaignRulebook(campaignId, unlockedPacks) ==
    /\ Len(calls) < MaxCalls
    /\ LET id == Len(calls) + 1
           c  == NewCall(campaignId, unlockedPacks, ArraySort(unlockedPacks))
       IN  IF c.cacheKey \in DOMAIN compiledCache
           THEN /\ calls' = Append(calls, [c EXCEPT !.pc = "done",
                                                    !.result = compiledCache[c.cacheKey]])
                /\ lastReturn' = id
           ELSE /\ calls' = Append(calls,
                        IF baseRules # 0
                        THEN [c EXCEPT !.pc = "awaitBase", !.baseRules = baseRules,
                                       !.repoCalls = 1]
                        ELSE [c EXCEPT !.pc = "readBase", !.repoCalls = 1])
                /\ UNCHANGED lastReturn
    /\ UNCHANGED << heap, baseRules, modifierCache, compiledCache, rulebooks,
                    baseFile, packFiles, cleared, clears >>

\* mutant of LoadBaseRulesRead: a file that fails is taken for the base
\* document all the same
LoadBaseRulesReadLenient(id) ==
    /\ id \in 1..Len(calls)
    /\ calls[id].pc = "readBase"
    /\ LET r == MaterializeRulebook(heap, BaseDoc, Region(id, 0))
       IN  /\ heap' = r.heap
           /\ baseRules' = r.ref
           /\ calls' = [calls EXCEPT ![id].pc = "awaitBase", ![id].baseRules = r.ref]
    /\ UNCHANGED << modifierCache, compiledCache, rulebooks, baseFile, packFiles,
                    lastReturn, cleared, clears >>

\* loadBaseRules after readFile settles: parse, validate, store, return;
\* a missing or invalid file makes it throw, which rejects the build
LoadBaseRulesRead(id) ==
    /\ id \in 1..Len(calls)
    /\ calls[id].pc = "readBase"
    /\ IF baseFile = "valid"
       THEN LET r == MaterializeRulebook(heap, BaseDoc, Region(id, 0))
            IN  /\ heap' = r.heap
                /\ baseRules' = r.ref
                /\ calls' = [calls EXCEPT ![id].pc = "awaitBase", ![id].baseRules = r.ref]
       ELSE /\ calls' = [calls EXCEPT ![id].pc = "failed"]
            /\ UNCHANGED << heap, baseRules >>
    /\ UNCHANGED << modifierCache, compiledCache, rulebooks, baseFile, packFiles,
                    lastReturn, cleared, clears >>

\* buildCampaignRulebook resumed with the base rules: deep clone, then the
\* loop up to the first loadPackModifiers await (or the return for no packs)
BuildAfterBase(id) ==
    /\ id \in 1..Len(calls)
    /\ calls[id].pc = "awaitBase"
    /\ LET r == DeepClone(heap, calls[id].baseRules, Region(id, 1))
       IN  Proceed(id, [calls[id] EXCEPT !.compiledRulebook = r.ref], r.heap)
    /\ UNCHANGED << baseRules, modifierCache, baseFile, packFiles, cleared, clears >>

\* mutant of CacheAfterFailure: the empty pack is cached under the pack name
CacheAfterFailureStores(packName) ==
    (packName :> EmptyPackModifiers(packName)) @@ modifierCache

\* the pack-modifier cache after the catch block of loadPackModifiers: as it was
CacheAfterFailure(packName) ==
    modifierCache

\* mutant of LoadPackModifiersRead: a failure is thrown on to the build
LoadPackModifiersReadThrows(id) ==
    /\ id \in 1..Len(calls)
    /\ calls[id].pc = "readPack"
    /\ LET packName == calls[id].unlockedPacks[calls[id].i]
           file     == packFiles[packName]
       IN  IF file.status = "valid"
           THEN LET r == MaterializePack(heap, file.doc, Region(id, 1 + calls[id].i))
                IN  /\ heap' = r.heap
                    /\ modifierCache' = (packName :> r.pack) @@ modifierCache
                    /\ calls' = [calls EXCEPT ![id].pc = "awaitPack",
                                              ![id].packModifiers = r.pack]
           ELSE /\ calls' = [calls EXCEPT ![id].pc = "failed"]
                /\ UNCHANGED << heap, modifierCache >>
    /\ UNCHANGED << baseRules, compiledCache, rulebooks, baseFile, packFiles,
                    lastReturn, cleared, clears >>

\* loadPackModifiers after readFile settles: parse, validate, cache, return;
\* any failure returns the empty pack, which is not cached
LoadPackModifiersRead(id) ==
    /\ id \in 1..Len(calls)
    /\ calls[id].pc = "readPack"
    /\ LET packName == calls[id].unlockedPacks[calls[id].i]
           file     == packFiles[packName]
       IN  IF file.status = "valid"
           THEN LET r == MaterializePack(heap, file.doc, Region(id, 1 + calls[id].i))
                IN  /\ heap' = r.heap
                    /\ modifierCache' = (packName :> r.pack) @@ modifierCache
                    /\ calls' = [calls EXCEPT ![id].pc = "awaitPack",
                                              ![id].packModifiers = r.pack]
           ELSE /\ calls' = [calls EXCEPT ![id].pc = "awaitPack",
                                          ![id].packModifiers = EmptyPackModifiers(packName)]
                /\ modifierCache' = CacheAfterFailure(packName)
                /\ UNCHANGED heap
    /\ UNCHANGED << baseRules, compiledCache, rulebooks, baseFile, packFiles,
                    lastReturn, cleared, clears >>

\* buildCampaignRulebook resumed with a pack: collect and apply its
\* modifiers, then go on with the loop
BuildAfterPack(id) ==
    /\ id \in 1..Len(calls)
    /\ calls[id].pc = "awaitPack"
    /\ LET c    == calls[id]
           mods == c.packModifiers.modifiers
       IN  Proceed(id,
                   [c EXCEPT !.allModifiers = @ \o mods,
                             !.applied = @ + Len(mods),
                             !.i = @ + 1],
                   ApplyAll(heap, c.compiledRulebook, mods))
    /\ UNCHANGED << baseRules, modifierCache, baseFile, packFiles, cleared, clears >>

\* a pack file written to the modifiers directory while the server runs:
\* from then on readFile finds it and it passes PackModifiersSchema
InstallPack(packName) ==
    /\ packFiles[packName].status = "missing"
    /\ packFiles' = [packFiles EXCEPT ![packName] = [status |-> "valid", doc |-> LatePack(packName)]]
    /\ UNCHANGED << heap, baseRules, modifierCache, compiledCache, rulebooks, calls,
                    baseFile, lastReturn, cleared, clears >>

\* history: a clear of everything, or of one campaign, and the number of
\* calls that had started when it ran
Clearing(all, campaignId) ==
    [all |-> all, campaignId |-> campaignId, calls |-> Len(calls)]

\* mutant of ClearCache: the pack-modifier cache is kept
ClearCacheKeepsPacks ==
    /\ clears < MaxClears
    /\ clears' = clears + 1
    /\ compiledCache' = << >>
    /\ baseRules' = 0
    /\ lastReturn' = 0
    /\ cleared' = [calls |-> Len(calls), objects |-> DOMAIN heap,
                   rulebooks |-> DOMAIN rulebooks,
                   log |-> Append(cleared.log, Clearing(TRUE, << >>))]
    /\ UNCHANGED << heap, modifierCache, rulebooks, calls, baseFile, packFiles >>

\* clearCache()
ClearCache ==
    /\ clears < MaxClears
    /\ clears' = clears + 1
    /\ compiledCache' = << >>
    /\ modifierCache' = << >>
    /\ baseRules' = 0
    /\ lastReturn' = 0
    /\ cleared' = [calls |-> Len(calls), objects |-> DOMAIN heap,
                   rulebooks |-> DOMAIN rulebooks,
                   log |-> Append(cleared.log, Clearing(TRUE, << >>))]
    /\ UNCHANGED << heap, rulebooks, calls, baseFile, packFiles >>

\* clearCampaignCache(campaignId)
ClearCampaignCache(campaignId) ==
    /\ clears < MaxClears
    /\ clears' = clears + 1
    /\ LET keysToDelete == { key \in DOMAIN compiledCache :
                                StartsWith(key, campaignId \o << ":" >>) }
       IN  compiledCache' = [key \in DOMAIN compiledCache \ keysToDelete |->
                                compiledCache[key]]
    /\ lastReturn' = 0
    /\ cleared' = [cleared EXCEPT !.log = Append(@, Clearing(FALSE, campaignId))]
    /\ UNCHANGED << heap, baseRules, modifierCache, rulebooks, calls, baseFile, packFiles >>

\* the default of a variable nothing has used yet
Unused == [status |-> "unused"]

Init ==
    /\ heap = GlobalObjects
    /\ baseRules = 0
    /\ modifierCache = << >>
    /\ compiledCache = << >>
    /\ rulebooks = << >>
    /\ calls = << >>
    /\ baseFile \in {"valid", "invalid"}
    /\ packFiles = [packName \in PackNames |-> PackFile(packName)]
    /\ users = << >>
    /\ requests = << >>
    /\ clock = 0
    /\ lastReturn = 0
    /\ cleared = [calls |-> 0, objects |-> {}, rulebooks |-> {}, log |-> << >>]
    /\ clears = 0
    /\ trial = Unused
    /\ topology = Unused
    /\ answer = Unused

\* no build is in flight
Quiescent == \A id \in 1..Len(calls) : calls[id].pc \in {"done", "failed"}

\* One request at a time: a request arrives when no build is in flight.
Next ==
    \/ \E campaignId \in CampaignIds, unlockedPacks \in PackLists :
            /\ Quiescent
            /\ BuildCampaignRulebook(campaignId, unlockedPacks)
            /\ UNCHANGED outside
    \/ \E id \in 1..MaxCalls : LoadBaseRulesRead(id) /\ UNCHANGED outside
    \/ \E id \in 1..MaxCalls : BuildAfterBase(id) /\ UNCHANGED outside
    \/ \E id \in 1..MaxCalls : LoadPackModifiersRead(id) /\ UNCHANGED outside
    \/ \E id \in 1..MaxCalls : BuildAfterPack(id) /\ UNCHANGED outside
    \/ Quiescent /\ ClearCache /\ UNCHANGED outside
    \/ \E campaignId \in CampaignIds :
            Quiescent /\ ClearCampaignCache(campaignId) /\ UNCHANGED outside

Spec == Init /\ [][Next]_vars

\* One request at a time, and pack files may appear while the server runs.
NextPacks ==
    \/ Next
    \/ \E packName \in { << "m" >> } : InstallPack(packName) /\ UNCHANGED outside

SpecPacks == Init /\ [][NextPacks]_vars

\* Requests arrive at any time; builds interleave at their awaits.
NextAsync ==
    \/ \E campaignId \in CampaignIds, unlockedPacks \in AuthoredPackLists :
            BuildCampaignRulebook(campaignId, unlockedPacks) /\ UNCHANGED outside
    \/ \E id \in 1..MaxCalls : LoadBaseRulesRead(id) /\ UNCHANGED outside
    \/ \E id \in 1..MaxCalls : BuildAfterBase(id) /\ UNCHANGED outside
    \/ \E id \in 1..MaxCalls : LoadPackModifiersRead(id) /\ UNCHANGED outside
    \/ \E id \in 1..MaxCalls : BuildAfterPack(id) /\ UNCHANGED outside
    \/ ClearCache /\ UNCHANGED outside
    \/ \E campaignId \in CampaignIds : ClearCampaignCache(campaignId) /\ UNCHANGED outside

SpecAsync == Init /\ [][NextAsync]_vars

-----------------------------------------------------------------------------
(* Properties.                                                             *)

\* call j has returned
Done(j) == j \in 1..Len(calls) /\ calls[j].pc = "done"

\* call j has returned a rulebook it compiled itself (no cache hit)
Built(j) == Done(j) /\ calls[j].result = j

\* the packs' modifier lists, in the order of packList, applied left to
\* right to the rulebook rb; a pack document is parsed once (parsed maps the
\* names of the packs parsed so far to their modifiers)
RECURSIVE CompilePacks(_, _, _, _, _)
CompilePacks(h, rb, packList, k, parsed) ==
    IF k > Len(packList) THEN h
    ELSE IF packList[k] \in DOMAIN parsed
    THEN CompilePacks(ApplyAll(h, rb, parsed[packList[k]]), rb, packList, k + 1, parsed)
    ELSE IF PackFile(packList[k]).status = "valid"
    THEN LET r == MaterializePack(h, PackFile(packList[k]).doc, Region(0, 1 + k))
         IN  CompilePacks(ApplyAll(r.heap, rb, r.pack.modifiers), rb, packList, k + 1,
                          (packList[k] :> r.pack.modifiers) @@ parsed)
    ELSE CompilePacks(h, rb, packList, k + 1, parsed)

\* the sections of a clone of the base document after the packs of packList
\* were applied in that order, on a builder that has compiled nothing yet
IsolatedCompile(packList) ==
    LET b  == MaterializeRulebook(<< >>, BaseDoc, Region(0, 0))
        cl == DeepClone(b.heap, b.ref, Region(0, 1))
    IN  SerializeSections(CompilePacks(cl.heap, cl.ref, packList, 1, << >>), cl.ref)

Count(arr, x) == Cardinality({ i \in 1..Len(arr) : arr[i] = x })

IsPermutation(s, t) ==
    /\ Len(s) = Len(t)
    /\ \A i \in 1..Len(s) : Count(s, s[i]) = Count(t, s[i])

\* C1: every rulebook a call compiled has the sections obtained by applying
\* the packs' modifiers in the order the caller listed the packs.
C1_CallerOrderApplied ==
    \A j \in 1..Len(calls) :
        Built(j) => rulebooks[j].returned = IsolatedCompile(calls[j].packsArg)

\* C2: the version of a compiled rulebook is base.version for no packs, else
\* base.version + "+" + the pack names joined by "+" in the caller's order.
C2_VersionInCallerOrder ==
    \A j \in 1..Len(calls) :
        Built(j) =>
            rulebooks[j].version =
                IF calls[j].packsArg = << >> THEN BaseVersion
                ELSE BaseVersion \o << "+" >> \o Join(calls[j].packsArg, << "+" >>)

\* C3: the cached base rulebook, and every reference to a base rulebook a
\* call or a CampaignRulebook holds, still serializes to the base document,
\* metadata.lastUpdated included.
C3_BaseUnchanged ==
    /\ baseRules # 0 => SerializeRulebook(heap, baseRules) = BaseDoc
    /\ \A j \in 1..Len(calls) :
            calls[j].baseRules # 0 =>
                SerializeRulebook(heap, calls[j].baseRules) = BaseDoc
    /\ \A r \in DOMAIN rulebooks :
            SerializeRulebook(heap, rulebooks[r].baseRules) = BaseDoc

\* C3 witness: a rulebook was compiled with both authored packs (modify_rule,
\* add_subsection, remove_rule, replace_section, add_rule, add_section) while
\* the base rulebook stays cached.
C3_Witness ==
    /\ baseRules # 0
    /\ \E j \in 1..Len(calls) :
            /\ Built(j)
            /\ Len(rulebooks[j].modifiers) = Len(PackA.modifiers) + Len(PackB.modifiers)

\* C4: two compilations of the same pack list return equal sections,
\* whatever was compiled before them.
C4_SameListSameSections ==
    \A i, j \in 1..Len(calls) :
        (Built(i) /\ Built(j) /\ calls[i].packsArg = calls[j].packsArg)
            => rulebooks[i].returned = rulebooks[j].returned

\* C5: a call that repeats the campaign id and pack list of the call that
\* returned last, with no cache clear in between, returns the same
\* CampaignRulebook object and calls neither loadBaseRules,
\* loadPackModifiers nor applyModifier.
C5_SecondCallCached ==
    \A j \in 1..Len(calls) :
        LET i == calls[j].prevReturn
        IN  (/\ i # 0
             /\ calls[i].campaignId = calls[j].campaignId
             /\ calls[i].packsArg = calls[j].packsArg)
            => /\ calls[j].pc = "done"
               /\ calls[j].result = calls[i].result
               /\ calls[j].repoCalls = 0
               /\ calls[j].applied = 0

\* C5 witness: the repeated call follows a call that compiled a rulebook
\* from a non-empty pack list.
C5_Witness ==
    \E j \in 1..Len(calls) :
        LET i == calls[j].prevReturn
        IN  /\ i # 0
            /\ Built(i)
            /\ calls[i].campaignId = calls[j].campaignId
            /\ calls[i].packsArg = calls[j].packsArg
            /\ Len(calls[i].packsArg) = MaxPacks
            /\ Done(j)

\* C6: a call for the campaign of the call that returned last, with a
\* permutation of its pack list and no cache clear in between, returns the
\* same CampaignRulebook object without compiling.
C6_PermutationCached ==
    \A j \in 1..Len(calls) :
        LET i == calls[j].prevReturn
        IN  (/\ i # 0
             /\ calls[i].campaignId = calls[j].campaignId
             /\ IsPermutation(calls[i].packsArg, calls[j].packsArg))
            => /\ calls[j].pc = "done"
               /\ calls[j].result = calls[i].result
               /\ calls[j].compiledRulebook = 0
               /\ calls[j].applied = 0

\* C6 witness: the second call lists the same packs in another order.
C6_Witness ==
    \E j \in 1..Len(calls) :
        LET i == calls[j].prevReturn
        IN  /\ i # 0
            /\ Built(i)
            /\ calls[i].campaignId = calls[j].campaignId
            /\ IsPermutation(calls[i].packsArg, calls[j].packsArg)
            /\ calls[i].packsArg # calls[j].packsArg
            /\ Done(j)

\* C7: the caller's unlockedPacks array keeps the order it was passed in,
\* and a compiled CampaignRulebook lists the packs in that order.
C7_CallerListUntouched ==
    \A j \in 1..Len(calls) :
        /\ calls[j].unlockedPacks = calls[j].packsArg
        /\ Built(j) => rulebooks[j].unlockedPacks = calls[j].packsArg

\* C8: clearCampaignCache(c) removes every cache entry whose rulebook was
\* built for campaign c and keeps every other entry as it was.
C8_ClearOnlyThatCampaign ==
    [][\A c \in CampaignIds :
          ClearCampaignCache(c) =>
              \A key \in DOMAIN compiledCache :
                  IF rulebooks[compiledCache[key]].campaignId = c
                  THEN key \notin DOMAIN compiledCache'
                  ELSE /\ key \in DOMAIN compiledCache'
                       /\ compiledCache'[key] = compiledCache[key]]_vars

\* the heap objects a list of parsed modifiers refers to
DataRefs(mods) ==
    { mods[k].data : k \in { n \in 1..Len(mods) : "data" \in DOMAIN mods[n] } }

\* calls started after clearCache() last ran use nothing that was cached when
\* it ran: not a CampaignRulebook, not a base rulebook, not a pack document
FreshAfterClear ==
    \A j \in (cleared.calls + 1)..Len(calls) :
        /\ calls[j].result \notin cleared.rulebooks
        /\ calls[j].baseRules \notin cleared.objects
        /\ calls[j].compiledRulebook \notin cleared.objects
        /\ DataRefs(calls[j].allModifiers) \cap cleared.objects = {}
        /\ DataRefs(calls[j].packModifiers.modifiers) \cap cleared.objects = {}

CurrentPack(j) == calls[j].unlockedPacks[calls[j].i]

NoPackFile(packName) == PackFile(packName).status # "valid"

\* loadPackModifiers resolves to the empty PackModifiers for a pack without a
\* valid file, a build is only ever rejected for the base rules, and a
\* build of unknown packs alone returns the base sections
UnknownPackIsEmpty ==
    \A j \in 1..Len(calls) :
        /\ (calls[j].pc = "awaitPack" /\ NoPackFile(CurrentPack(j))) =>
                /\ calls[j].packModifiers.pack = CurrentPack(j)
                /\ calls[j].packModifiers.name = CurrentPack(j)
                /\ calls[j].packModifiers.modifiers = << >>
        /\ calls[j].pc = "failed" => baseFile # "valid"
        /\ (Built(j) /\ \A k \in 1..Len(calls[j].packsArg) : NoPackFile(calls[j].packsArg[k]))
                => /\ rulebooks[j].returned = BaseDoc.sections
                   /\ rulebooks[j].modifiers = << >>

\* the step in which a build takes up the result of loading an unknown pack
\* leaves its compiled sections and its modifier list as they were
UnknownPackChangesNothing ==
    \A j \in 1..Len(calls) :
        (/\ calls[j].pc = "awaitPack"
         /\ NoPackFile(CurrentPack(j))
         /\ calls'[j].i = calls[j].i + 1)
        => /\ SerializeSections(heap', calls[j].compiledRulebook)
                = SerializeSections(heap, calls[j].compiledRulebook)
           /\ calls'[j].allModifiers = calls[j].allModifiers
           /\ calls'[j].pc # "failed"

\* C10: loadPackModifiers never throws: for a missing or invalid pack
\* document it returns the empty PackModifiers {pack: packName, name:
\* packName, modifiers: []}, so a build with an unknown pack is not rejected
\* and that pack changes nothing in the compiled sections.
C10_UnknownPackNoOp ==
    /\ []UnknownPackIsEmpty
    /\ [][UnknownPackChangesNothing]_vars

\* C10 witness: a build whose list names a pack with no file, a pack with an
\* invalid file or both, next to an authored pack, has returned its rulebook.
C10_Witness ==
    \E j \in 1..Len(calls) :
        /\ Built(j)
        /\ \E k \in 1..Len(calls[j].packsArg) : PackFile(calls[j].packsArg[k]).status = "missing"
        /\ \E k \in 1..Len(calls[j].packsArg) : PackFile(calls[j].packsArg[k]).status = "valid"

-----------------------------------------------------------------------------
(* applyModifier and getSectionById on their own: a rulebook parsed from   *)
(* the base document, and modifiers applied to it one after another.       *)

\* applyModifier calls per behaviour
MaxApplies == 3

\* the rulebook documents the modifiers are applied to
RulebookDocs == { BaseDoc }

\* modifier documents: those of the two packs, and modifiers whose target
\* is missing, is an inherited property name, holds the rule id already,
\* was written by another modifier, or was added by one
ModifierDocs ==
    { PackA.modifiers[i] : i \in 1..Len(PackA.modifiers) } \cup
    { PackB.modifiers[i] : i \in 1..Len(PackB.modifiers) } \cup
    { [type |-> "add_subsection", section_id |-> "nosuch", subsection_id |-> "defending",
       data |-> [title |-> "Defending", rules |-> << Rule("r4", << "a", "b" >>) >>]],
      [type |-> "add_subsection", section_id |-> "constructor", subsection_id |-> "defending",
       data |-> [title |-> "Defending", rules |-> << Rule("r4", << "a", "b" >>) >>]],
      [type |-> "add_subsection", section_id |-> "combat", subsection_id |-> "notes",
       data |-> [title |-> "Notes"]],
      [type |-> "add_rule", section_id |-> "combat", subsection_id |-> "attacking",
       rule |-> Rule("r3", << "c", "c" >>)],
      [type |-> "add_rule", section_id |-> "combat", subsection_id |-> "nosuch",
       rule |-> Rule("r5", << "b", "a" >>)],
      [type |-> "add_rule", section_id |-> "nosuch", subsection_id |-> "attacking",
       rule |-> Rule("r5", << "b", "a" >>)],
      [type |-> "modify_rule", rule_id |-> "r3",
       changes |-> [id |-> "r9", priority |-> 2, tags |-> << "t" >>]],
      [type |-> "modify_rule", rule_id |-> "r9", changes |-> [text |-> << "x" >>]],
      [type |-> "remove_rule", rule_id |-> "r3"],
      [type |-> "remove_rule", rule_id |-> "r9"],
      [type |-> "remove_rule", rule_id |-> "r5"],
      [type |-> "add_section", section_id |-> "combat",
       data |-> [id |-> "combat", title |-> "Combat III", subsections |-> << >>]],
      [type |-> "modify_rule", rule_id |-> "r1",
       changes |-> [text |-> << "c" >>, priority |-> 5]] }

\* section ids a caller may look up
SectionIds == { "combat", "missions", "nosuch", "constructor" }

\* getSectionById(rulebook, sectionId): rulebook.sections[sectionId] || null
getSectionById(h, rb, sectionId) == PropertyGet(h[rb].sections, sectionId)

\* what getRuleById returns for no rule
Null == [kind |-> "null"]

\* mutant of getRuleById: only the first rule of a subsection is looked at
getRuleByIdHead(h, rb, ruleId) ==
    LET refs == SubsectionRefs(h, h[rb].sections)
        hits == { i \in 1..Len(refs) :
                    /\ RulesOf(h, refs[i]) # << >>
                    /\ RulesOf(h, refs[i])[1].id = ruleId }
    IN  IF hits = {} THEN Null
        ELSE RulesOf(h, refs[CHOOSE i \in hits : \A j \in hits : i <= j])[1]

\* getRuleById(rulebook, ruleId): the first rule with the id in the first
\* subsection visited that holds one, or null
getRuleById(h, rb, ruleId) ==
    LET subsection == FirstHolder(h, rb, ruleId)
    IN  IF subsection # 0
        THEN h[subsection].rules[FindIndex(h[subsection].rules, ruleId)]
        ELSE Null

\* the modifier, parsed, is applied to the rulebook under trial
ApplyModifier(doc) ==
    /\ trial.status \in {"ready", "applied", "threw"}
    /\ trial.n < MaxApplies
    /\ LET r  == MaterializeModifier(heap, doc, Region(1, 1 + trial.n))
           rb == trial.rulebook
           threw == applyModifierThrows(r.heap, rb, r.mod)
       IN  /\ heap' = IF threw THEN r.heap ELSE applyModifier(r.heap, rb, r.mod)
           /\ trial' = [status   |-> IF threw THEN "threw" ELSE "applied",
                        rulebook |-> rb,
                        n        |-> trial.n + 1,
                        modifier |-> r.mod,
                        before   |-> r.heap,     \* history: the heap at the call
                        \* history: the application before this one
                        previous |-> [status   |-> trial.status,
                                      modifier |-> trial.modifier,
                                      before   |-> trial.before],
                        lookup   |-> [sectionId |-> "", result |-> 0]]
    /\ UNCHANGED << baseRules, modifierCache, compiledCache, rulebooks, calls,
                    baseFile, packFiles, lastReturn, cleared, clears, topology, answer, auth >>

\* a caller looks a section up
GetSectionById(sectionId) ==
    /\ trial.status \in {"ready", "applied", "threw"}
    /\ trial.lookup.sectionId = ""
    /\ trial' = [trial EXCEPT !.lookup =
                    [sectionId |-> sectionId,
                     result    |-> getSectionById(heap, trial.rulebook, sectionId)]]
    /\ UNCHANGED << heap, baseRules, modifierCache, compiledCache, rulebooks, calls,
                    baseFile, packFiles, lastReturn, cleared, clears, topology, answer, auth >>

InitApply ==
    /\ \E doc \in RulebookDocs :
          LET r == MaterializeRulebook(GlobalObjects, doc, Region(1, 0))
          IN  /\ heap = r.heap
              /\ trial = [status   |-> "ready",
                          rulebook |-> r.ref,
                          n        |-> 0,
                          modifier |-> [type |-> "none"],
                          before   |-> r.heap,
                          previous |-> [status   |-> "none",
                                        modifier |-> [type |-> "none"],
                                        before   |-> r.heap],
                          lookup   |-> [sectionId |-> "", result |-> 0]]
    /\ baseRules = 0
    /\ modifierCache = << >>
    /\ compiledCache = << >>
    /\ rulebooks = << >>
    /\ calls = << >>
    /\ baseFile = "valid"
    /\ packFiles = [packName \in PackNames |-> PackFile(packName)]
    /\ users = << >>
    /\ requests = << >>
    /\ clock = 0
    /\ lastReturn = 0
    /\ cleared = [calls |-> 0, objects |-> {}, rulebooks |-> {}, log |-> << >>]
    /\ clears = 0
    /\ topology = Unused
    /\ answer = Unused

NextApply ==
    \/ \E doc \in ModifierDocs : ApplyModifier(doc)
    \/ \E sectionId \in SectionIds : GetSectionById(sectionId)

SpecApply == InitApply /\ [][NextApply]_vars

-----------------------------------------------------------------------------
(* Properties of applyModifier.                                            *)

\* an application has happened and returned
Applied(type) == trial.status = "applied" /\ trial.modifier.type = type

RECURSIVE RulesOfAll(_, _)
RulesOfAll(h, refs) ==
    IF refs = << >> THEN << >>
    ELSE RulesOf(h, Head(refs)) \o RulesOfAll(h, Tail(refs))

\* every rule of the rulebook, in section, subsection, rule order
AllRules(h, rb) == RulesOfAll(h, SubsectionRefs(h, h[rb].sections))

\* position of the first rule with the id in a list of rules, 0 when none
FirstWithId(rules, ruleId) == FindIndex(rules, ruleId)

\* the rulebook has the same sections and subsections as before
SameSections(h1, h2, rb) ==
    LET refs == SubsectionRefs(h1, h1[rb].sections)
    IN  /\ h1[rb].sections = h2[rb].sections
        /\ refs = SubsectionRefs(h2, h2[rb].sections)
        /\ \A i \in 1..Len(refs) : h1[refs[i]].title = h2[refs[i]].title

\* how many rules each subsection holds, in traversal order
RuleCounts(h, rb) ==
    LET refs == SubsectionRefs(h, h[rb].sections)
    IN  [i \in 1..Len(refs) |-> Len(RulesOf(h, refs[i]))]

RECURSIVE SumTo(_, _)
SumTo(counts, i) == IF i = 0 THEN 0 ELSE counts[i] + SumTo(counts, i - 1)

\* the subsection (by position) that holds the k-th rule of the rulebook
HolderOf(counts, k) ==
    CHOOSE i \in 1..Len(counts) : SumTo(counts, i - 1) < k /\ k <= SumTo(counts, i)

\* how many rules carry the id
WithId(rules, ruleId) == Cardinality({ i \in 1..Len(rules) : rules[i].id = ruleId })

\* the modifier's target is not in the rulebook
TargetMissing(h, rb, m) ==
    CASE m.type = "add_subsection" -> ~MapHas(h[rb].sections, m.section_id)
      [] m.type = "add_rule" ->
            \/ ~MapHas(h[rb].sections, m.section_id)
            \/ ~MapHas(h[MapGet(h[rb].sections, m.section_id)].subsections,
                       m.subsection_id)
      [] m.type \in {"modify_rule", "remove_rule"} ->
            FirstWithId(AllRules(h, rb), m.rule_id) = 0
      [] OTHER -> FALSE

C12_ModifyRuleFirstMatchOnly ==
    Applied("modify_rule") =>
        LET rb      == trial.rulebook
            before  == AllRules(trial.before, rb)
            after   == AllRules(heap, rb)
            changes == trial.modifier.changes
            k       == FirstWithId(before, trial.modifier.rule_id)
        IN  /\ SameSections(trial.before, heap, rb)
            /\ RuleCounts(heap, rb) = RuleCounts(trial.before, rb)
            /\ \A i \in 1..Len(before) : i # k => after[i] = before[i]
            /\ k # 0 =>
                  /\ after[k].id = before[k].id
                  /\ DOMAIN after[k] = DOMAIN before[k] \cup DOMAIN changes
                  /\ \A f \in DOMAIN changes : after[k][f] = changes[f]
                  /\ \A f \in DOMAIN before[k] \ (DOMAIN changes \cup { "modifiers" }) :
                        after[k][f] = before[k][f]
                  /\ after[k].modifiers = Append(before[k].modifiers, "modified")

\* modify_rule met two rules with its id, one of them modified before
C12_Witness ==
    /\ Applied("modify_rule")
    /\ WithId(AllRules(trial.before, trial.rulebook), trial.modifier.rule_id) = 2
    /\ "priority" \in DOMAIN trial.modifier.changes
    /\ \E i \in 1..Len(AllRules(heap, trial.rulebook)) :
          AllRules(heap, trial.rulebook)[i].modifiers = << "modified", "modified" >>

\* C13: remove_rule removes exactly one rule, the first in traversal order
\* whose id matches; every other rule, later rules with the same id
\* included, and the order of the remaining rules stay as they were.
C13_RemoveRuleFirstMatchOnly ==
    Applied("remove_rule") =>
        LET rb     == trial.rulebook
            before == AllRules(trial.before, rb)
            after  == AllRules(heap, rb)
            counts == RuleCounts(trial.before, rb)
            k      == FirstWithId(before, trial.modifier.rule_id)
        IN  /\ SameSections(trial.before, heap, rb)
            /\ IF k = 0
               THEN /\ after = before
                    /\ RuleCounts(heap, rb) = counts
               ELSE /\ after = [i \in 1..(Len(before) - 1) |->
                                    IF i < k THEN before[i] ELSE before[i + 1]]
                    /\ RuleCounts(heap, rb) =
                          [counts EXCEPT ![HolderOf(counts, k)] = @ - 1]

\* remove_rule met two rules with its id and a rule behind the first of them
C13_Witness ==
    /\ Applied("remove_rule")
    /\ LET before == AllRules(trial.before, trial.rulebook)
       IN  /\ WithId(before, trial.modifier.rule_id) = 2
           /\ FirstWithId(before, trial.modifier.rule_id) < Len(before) - 1
    /\ WithId(AllRules(heap, trial.rulebook), trial.modifier.rule_id) = 1

\* after add_section or replace_section the section is the modifier's data,
\* as the document gave it, and the other sections are the objects they were
SectionOverwritten ==
    (Applied("add_section") \/ Applied("replace_section")) =>
        LET rb == trial.rulebook
            m  == trial.modifier
            old == trial.before[rb].sections
            new == heap[rb].sections
        IN  /\ getSectionById(heap, rb, m.section_id) = m.data
            /\ SerializeSection(heap, m.data) = SerializeSection(trial.before, m.data)
            /\ { new[i].key : i \in 1..Len(new) }
                  = { old[i].key : i \in 1..Len(old) } \cup { m.section_id }
            /\ \A i \in 1..Len(old) :
                  old[i].key # m.section_id =>
                      /\ MapGet(new, old[i].key) = old[i].ref
                      /\ SerializeSection(heap, old[i].ref)
                            = SerializeSection(trial.before, old[i].ref)

\* getSectionById of an id that is no key of sections gave null
LookupOfNoKeyIsNull ==
    (trial.status # "unused" /\ trial.lookup.sectionId # ""
        /\ ~MapHas(heap[trial.rulebook].sections, trial.lookup.sectionId))
    => trial.lookup.result = 0

\* C14: after add_section or replace_section with section_id s,
\* getSectionById(rulebook, s) is exactly the modifier's section data and
\* every other section is unchanged; getSectionById of an id that is not a
\* section key returns null.
C14_SectionOverwriteAndLookup == SectionOverwritten /\ LookupOfNoKeyIsNull

\* C15: no two rules of the rulebook share an id, after any sequence of
\* modifiers applied to a base whose rule ids are unique.
C15_RuleIdsUnique ==
    trial.status = "applied" =>
        LET rules == AllRules(heap, trial.rulebook)
        IN  \A i, j \in 1..Len(rules) : i # j => rules[i].id # rules[j].id

-----------------------------------------------------------------------------
(* BoardTopology (src/server/board/topology.ts).                           *)

\* territory entries in a board document
MaxTerritories == 2

\* continent entries in a board document
MaxContinents == 1

\* ids a document or a caller may name: two territories a board can have,
\* and one that no board has
TerritoryIds == { "x", "y" }
ReferenceIds == TerritoryIds \cup { "z" }

\* continent ids: one that a board can have and one that no board has
ContinentIds == { "k1", "k2" }

AdjacencyLists == { << >>, << "x" >>, << "y" >>, << "z" >>, << "x", "y" >> }

\* territory entries (TerritorySchema); ids need not differ between entries
Territories == [id : TerritoryIds, continent : ContinentIds, adjacentTo : AdjacencyLists]

\* continent entries (ContinentSchema)
Continents == [id : { "k1" },
               territories : { << >>, << "x" >>, << "x", "y" >>, << "z" >> }]

\* board documents that pass BoardSchema
Boards == [territories : SeqsUpTo(Territories, MaxTerritories),
           continents  : SeqsUpTo(Continents, MaxContinents)]

\* the entry a Map holds for the id after map.set(entry.id, entry) in a
\* loop over the entries: for an id set twice, the later entry
LastWithId(entries, id) ==
    entries[CHOOSE i \in 1..Len(entries) :
                /\ entries[i].id = id
                /\ \A j \in (i + 1)..Len(entries) : entries[j].id # id]

\* the Map that loop leaves
MapFrom(entries) ==
    [id \in { entries[i].id : i \in 1..Len(entries) } |-> LastWithId(entries, id)]

\* new Set(territory.adjacentTo)
AdjacencySet(territory) ==
    { territory.adjacentTo[i] : i \in 1..Len(territory.adjacentTo) }

\* mutant of validateBidirectionalAdjacencies: a one-way adjacency throws too
validateBidirectionalStrict(board, territoryMap) ==
    \E i \in 1..Len(board.territories) :
        \E j \in 1..Len(board.territories[i].adjacentTo) :
            LET adjacentId == board.territories[i].adjacentTo[j]
            IN  \/ adjacentId \notin DOMAIN territoryMap
                \/ board.territories[i].id \notin AdjacencySet(territoryMap[adjacentId])

\* validateBidirectionalAdjacencies(): TRUE when it throws; a one-way
\* adjacency is only warned about
validateBidirectionalAdjacencies(board, territoryMap) ==
    \E i \in 1..Len(board.territories) :
        \E j \in 1..Len(board.territories[i].adjacentTo) :
            board.territories[i].adjacentTo[j] \notin DOMAIN territoryMap

\* the instance new BoardTopology(board) leaves: the indexes are built, then
\* the adjacency lists are validated; a throw leaves no instance
Constructed(board) ==
    LET territoryMap   == MapFrom(board.territories)
        adjacencyCache == [id \in DOMAIN territoryMap |-> AdjacencySet(territoryMap[id])]
        continentMap   == MapFrom(board.continents)
    IN  IF validateBidirectionalAdjacencies(board, territoryMap)
        THEN [status |-> "threw", board |-> board]
        ELSE [status         |-> "constructed",
              board          |-> board,
              territoryMap   |-> territoryMap,
              continentMap   |-> continentMap,
              adjacencyCache |-> adjacencyCache]

\* new BoardTopology(board)
NewBoardTopology(board) ==
    /\ topology.status = "unused"
    /\ topology' = Constructed(board)
    /\ UNCHANGED << heap, baseRules, modifierCache, compiledCache, rulebooks, calls,
                    baseFile, packFiles, lastReturn, cleared, clears, trial, answer, auth >>

\* areTerritoriesAdjacent(territoryId1, territoryId2)
areTerritoriesAdjacent(t, territoryId1, territoryId2) ==
    IF territoryId1 \notin DOMAIN t.adjacencyCache
    THEN FALSE
    ELSE territoryId2 \in t.adjacencyCache[territoryId1]

\* mutant of validateMovement: both territories exist, adjacent or not
validateMovementExisting(t, fromId, toId) ==
    IF fromId \notin DOMAIN t.territoryMap \/ toId \notin DOMAIN t.territoryMap
    THEN FALSE
    ELSE TRUE

\* validateMovement(fromId, toId)
validateMovement(t, fromId, toId) ==
    IF fromId \notin DOMAIN t.territoryMap \/ toId \notin DOMAIN t.territoryMap
    THEN FALSE
    ELSE areTerritoriesAdjacent(t, fromId, toId)

\* getContinentTerritories(continentId): getContinent throws for an unknown
\* continent, getTerritory for an unknown territory id in its list
getContinentTerritories(t, continentId) ==
    IF continentId \notin DOMAIN t.continentMap
    THEN [threw |-> "Continent not found", result |-> << >>]
    ELSE LET ids == t.continentMap[continentId].territories
         IN  IF \E i \in 1..Len(ids) : ids[i] \notin DOMAIN t.territoryMap
             THEN [threw |-> "Territory not found", result |-> << >>]
             ELSE [threw  |-> "",
                   result |-> [i \in 1..Len(ids) |-> t.territoryMap[ids[i]]]]

\* mutant of getAdjacentTerritories: only the first adjacent territory is returned
getAdjacentTerritoriesFirst(t, territoryId) ==
    IF territoryId \notin DOMAIN t.territoryMap
    THEN [threw |-> "Territory not found", result |-> << >>]
    ELSE LET ids == t.territoryMap[territoryId].adjacentTo
         IN  IF \E i \in 1..Len(ids) : ids[i] \notin DOMAIN t.territoryMap
             THEN [threw |-> "Territory not found", result |-> << >>]
             ELSE [threw  |-> "",
                   result |-> [i \in 1..(IF Len(ids) > 0 THEN 1 ELSE 0) |->
                                  t.territoryMap[ids[i]]]]

\* getAdjacentTerritories(territoryId): getTerritory throws for an unknown
\* territory, and for an unknown id in its adjacentTo
getAdjacentTerritories(t, territoryId) ==
    IF territoryId \notin DOMAIN t.territoryMap
    THEN [threw |-> "Territory not found", result |-> << >>]
    ELSE LET ids == t.territoryMap[territoryId].adjacentTo
         IN  IF \E i \in 1..Len(ids) : ids[i] \notin DOMAIN t.territoryMap
             THEN [threw |-> "Territory not found", result |-> << >>]
             ELSE [threw  |-> "",
                   result |-> [i \in 1..Len(ids) |-> t.territoryMap[ids[i]]]]

RECURSIVE Concat(_)
Concat(seqs) == IF seqs = << >> THEN << >> ELSE Head(seqs) \o Concat(Tail(seqs))

\* verifyIntegrity, first check: one issue for all territories without adjacencies
IsolatedIssues(t) ==
    LET isolated == SelectSeq(t.board.territories, LAMBDA e : Len(e.adjacentTo) = 0)
    IN  IF Len(isolated) > 0
        THEN << [kind |-> "isolated", count |-> Len(isolated)] >>
        ELSE << >>

\* second check: adjacency references to territories the board does not have
AdjacencyIssues(t) ==
    Concat([i \in 1..Len(t.board.territories) |->
        LET e == t.board.territories[i]
        IN  Concat([j \in 1..Len(e.adjacentTo) |->
                IF e.adjacentTo[j] \notin DOMAIN t.territoryMap
                THEN << [kind |-> "adjacent", territory |-> e.id, to |-> e.adjacentTo[j]] >>
                ELSE << >>])])

\* mutant of ContinentIssues: the continent field of a listed territory is not compared
ContinentIssuesReferencesOnly(t) ==
    Concat([i \in 1..Len(t.board.continents) |->
        LET c == t.board.continents[i]
        IN  Concat([j \in 1..Len(c.territories) |->
                IF c.territories[j] \notin DOMAIN t.territoryMap
                THEN << [kind |-> "reference", continent |-> c.id, to |-> c.territories[j]] >>
                ELSE << >>])])

\* third check: continent lists naming a territory the board does not
\* have, or one whose continent field names another continent
ContinentIssues(t) ==
    Concat([i \in 1..Len(t.board.continents) |->
        LET c == t.board.continents[i]
        IN  Concat([j \in 1..Len(c.territories) |->
                IF c.territories[j] \notin DOMAIN t.territoryMap
                THEN << [kind |-> "reference", continent |-> c.id, to |-> c.territories[j]] >>
                ELSE IF t.territoryMap[c.territories[j]].continent # c.id
                THEN << [kind |-> "mismatch", continent |-> c.id, to |-> c.territories[j]] >>
                ELSE << >>])])

\* verifyIntegrity()
verifyIntegrity(t) ==
    LET issues == IsolatedIssues(t) \o AdjacencyIssues(t) \o ContinentIssues(t)
    IN  [isValid |-> Len(issues) = 0, issues |-> issues]

\* what a caller of the constructed board got
Answer(op, args, threw, result) ==
    [status |-> "answered", op |-> op, args |-> args, threw |-> threw, result |-> result]

AreTerritoriesAdjacent(territoryId1, territoryId2) ==
    /\ topology.status = "constructed"
    /\ answer' = Answer("areTerritoriesAdjacent", << territoryId1, territoryId2 >>, "",
                        areTerritoriesAdjacent(topology, territoryId1, territoryId2))
    /\ UNCHANGED << heap, baseRules, modifierCache, compiledCache, rulebooks, calls,
                    baseFile, packFiles, lastReturn, cleared, clears, trial, topology, auth >>

ValidateMovement(fromId, toId) ==
    /\ topology.status = "constructed"
    /\ answer' = Answer("validateMovement", << fromId, toId >>, "",
                        validateMovement(topology, fromId, toId))
    /\ UNCHANGED << heap, baseRules, modifierCache, compiledCache, rulebooks, calls,
                    baseFile, packFiles, lastReturn, cleared, clears, trial, topology, auth >>

GetContinentTerritories(continentId) ==
    /\ topology.status = "constructed"
    /\ LET r == getContinentTerritories(topology, continentId)
       IN  answer' = Answer("getContinentTerritories", << continentId >>,
                            r.threw, r.result)
    /\ UNCHANGED << heap, baseRules, modifierCache, compiledCache, rulebooks, calls,
                    baseFile, packFiles, lastReturn, cleared, clears, trial, topology, auth >>

GetAdjacentTerritories(territoryId) ==
    /\ topology.status = "constructed"
    /\ LET r == getAdjacentTerritories(topology, territoryId)
       IN  answer' = Answer("getAdjacentTerritories", << territoryId >>,
                            r.threw, r.result)
    /\ UNCHANGED << heap, baseRules, modifierCache, compiledCache, rulebooks, calls,
                    baseFile, packFiles, lastReturn, cleared, clears, trial, topology, auth >>

VerifyIntegrity ==
    /\ topology.status = "constructed"
    /\ answer' = Answer("verifyIntegrity", << >>, "", verifyIntegrity(topology))
    /\ UNCHANGED << heap, baseRules, modifierCache, compiledCache, rulebooks, calls,
                    baseFile, packFiles, lastReturn, cleared, clears, trial, topology, auth >>

InitBoard ==
    /\ heap = GlobalObjects
    /\ baseRules = 0
    /\ modifierCache = << >>
    /\ compiledCache = << >>
    /\ rulebooks = << >>
    /\ calls = << >>
    /\ baseFile = "valid"
    /\ packFiles = [packName \in PackNames |-> PackFile(packName)]
    /\ users = << >>
    /\ requests = << >>
    /\ clock = 0
    /\ lastReturn = 0
    /\ cleared = [calls |-> 0, objects |-> {}, rulebooks |-> {}, log |-> << >>]
    /\ clears = 0
    /\ trial = Unused
    /\ topology = Unused
    /\ answer = Unused

NextBoard ==
    \/ \E board \in Boards : NewBoardTopology(board)
    \/ \E a, b \in ReferenceIds : AreTerritoriesAdjacent(a, b)
    \/ \E a, b \in ReferenceIds : ValidateMovement(a, b)
    \/ \E c \in ContinentIds : GetContinentTerritories(c)
    \/ \E t \in ReferenceIds : GetAdjacentTerritories(t)
    \/ VerifyIntegrity

SpecBoard == InitBoard /\ [][NextBoard]_vars

-----------------------------------------------------------------------------
(* Properties of BoardTopology.                                            *)

\* the ids of the territory entries of a board document
IdsOf(board) == { board.territories[i].id : i \in 1..Len(board.territories) }

\* some entry with id `a` lists `b` in its adjacentTo
Lists(board, a, b) ==
    \E i \in 1..Len(board.territories) :
        /\ board.territories[i].id = a
        /\ \E j \in 1..Len(board.territories[i].adjacentTo) :
              board.territories[i].adjacentTo[j] = b

\* the last query was `op`
Answered(op) == answer.status = "answered" /\ answer.op = op

\* C16: constructing a BoardTopology throws exactly when some territory's
\* adjacentTo names an id that is not a territory of the board; a one-way
\* adjacency does not make it fail.
C16_ThrowsOnDanglingAdjacencyOnly ==
    topology.status # "unused" =>
        (topology.status = "threw"
            <=> \E a \in IdsOf(topology.board), b \in ReferenceIds :
                    Lists(topology.board, a, b) /\ b \notin IdsOf(topology.board))

\* a board with a one-way adjacency was constructed
C16_Witness ==
    /\ topology.status = "constructed"
    /\ \E a, b \in IdsOf(topology.board) :
          a # b /\ Lists(topology.board, a, b) /\ ~Lists(topology.board, b, a)

\* C17: on a constructed board, for every territory entry t of the document
\* and every a in t.adjacentTo, areTerritoriesAdjacent(t.id, a) is true; and
\* areTerritoriesAdjacent(x, y) is true only if y is in the adjacentTo list
\* of territory x.
C17_AdjacencyRoundTrip ==
    Answered("areTerritoriesAdjacent") =>
        LET x == answer.args[1]
            y == answer.args[2]
        IN  /\ Lists(topology.board, x, y) => answer.result = TRUE
            /\ answer.result = TRUE => Lists(topology.board, x, y)

\* C18: validateMovement(from, to) never throws and is true exactly when
\* both ids are territories of the board and to is in from's adjacency set
\* (so false with either id unknown, and false for (x, x) unless x lists
\* itself).
C18_MovementIffKnownAndAdjacent ==
    Answered("validateMovement") =>
        LET from == answer.args[1]
            to   == answer.args[2]
        IN  /\ answer.threw = ""
            /\ answer.result = TRUE <=>
                  /\ from \in IdsOf(topology.board)
                  /\ to \in IdsOf(topology.board)
                  /\ to \in topology.adjacencyCache[from]
            /\ (from \notin IdsOf(topology.board) \/ to \notin IdsOf(topology.board))
                  => answer.result = FALSE
            /\ (from = to /\ ~Lists(topology.board, from, from)) => answer.result = FALSE

\* a move from a territory to itself was found legal, and the board has a
\* second territory that is not adjacent to the first
C18_Witness ==
    /\ Answered("validateMovement")
    /\ answer.args[1] = answer.args[2]
    /\ answer.result = TRUE
    /\ \E other \in IdsOf(topology.board) :
          ~validateMovement(topology, answer.args[1], other)

\* C19: on a constructed board getContinentTerritories(c) throws only when
\* c is not a continent id of the board; for a continent the board has it
\* returns the listed territories.
C19_ContinentTerritoriesThrowOnlyUnknown ==
    Answered("getContinentTerritories") =>
        LET c == answer.args[1]
        IN  IF c \in { topology.board.continents[i].id :
                         i \in 1..Len(topology.board.continents) }
            THEN /\ answer.threw = ""
                 /\ Len(answer.result) = Len(topology.continentMap[c].territories)
                 /\ \A i \in 1..Len(answer.result) :
                       answer.result[i].id = topology.continentMap[c].territories[i]
            ELSE answer.threw # ""

\* what the four checks of verifyIntegrity look for, read off the document;
\* a listed id stands for the territory the board resolves it to
NoIntegrityIssue(t) ==
    LET b == t.board
    IN  /\ \A i \in 1..Len(b.territories) : Len(b.territories[i].adjacentTo) > 0
        /\ \A a \in IdsOf(b), z \in ReferenceIds : Lists(b, a, z) => z \in IdsOf(b)
        /\ \A i \in 1..Len(b.continents) :
              \A j \in 1..Len(b.continents[i].territories) :
                  LET id == b.continents[i].territories[j]
                  IN  /\ id \in IdsOf(b)
                      /\ t.territoryMap[id].continent = b.continents[i].id

\* C20: verifyIntegrity() never throws; isValid is true exactly when issues
\* is empty, which is exactly when no territory has an empty adjacentTo, no
\* adjacentTo names a missing territory, every territory id a continent
\* lists exists, and every listed territory's continent field is the id of
\* the continent listing it.
C20_IntegrityIffNoIssue ==
    Answered("verifyIntegrity") =>
        /\ answer.threw = ""
        /\ answer.result.isValid = TRUE <=> answer.result.issues = << >>
        /\ answer.result.issues = << >> <=> NoIntegrityIssue(topology)

\* a board with a continent was found valid, and so was not for lack of
\* anything to check
C20_Witness ==
    /\ Answered("verifyIntegrity")
    /\ answer.result.isValid = TRUE
    /\ \E i \in 1..Len(topology.board.continents) :
          Len(topology.board.continents[i].territories) = 2

\* C21: an adjacency that is not bidirectional (a lists b, b does not list
\* a) shows up in verifyIntegrity(): on such a board issues is non-empty and
\* isValid is false.
C21_OneWayAdjacencyIsAnIssue ==
    (/\ Answered("verifyIntegrity")
     /\ \E a, b \in IdsOf(topology.board) :
           Lists(topology.board, a, b) /\ ~Lists(topology.board, b, a))
    => /\ answer.result.issues # << >>
       /\ answer.result.isValid = FALSE

-----------------------------------------------------------------------------
(* The board module: loadBoardTopology, the two cached singletons, and      *)
(* getStatistics on a loaded instance. Instances live in the heap, the      *)
(* module's two variables in topology, the calls made so far in calls.      *)

\* calls to the board module per behaviour
MaxBoardCalls == 5

Versions == { "original", "advanced" }

\* the document scripts/build-advanced-topology.ts writes to
\* assets/board/advanced-topology.json (the fields the schema keeps and the
\* topology reads)
advancedTopology ==
    [version  |-> "advanced",
     metadata |-> [totalTerritories |-> 42, lastUpdated |-> "2025-11-04"],
     continents |-> <<
        [id |-> "western-north-america",
         territories |->
            << "western-north-america-alaska",
            "western-north-america-western-united-states",
            "western-north-america-eastern-united-states" >>],
        [id |-> "central-north-america",
         territories |->
            << "central-north-america-northwest-territory",
            "central-north-america-alberta", "central-north-america-ontario",
            "central-north-america-eastern-canada" >>],
        [id |-> "arctic",
         territories |->
            << "arctic-greenland", "arctic-iceland", "arctic-scandinavia" >>],
        [id |-> "europe",
         territories |->
            << "europe-great-britain", "europe-northern-europe",
            "europe-western-europe", "europe-southern-europe", "europe-russia" >>],
        [id |-> "central-america",
         territories |->
            << "central-america-central-america" >>],
        [id |-> "south-america",
         territories |->
            << "south-america-venezuela", "south-america-peru", "south-america-brazil",
            "south-america-argentina" >>],
        [id |-> "africa",
         territories |->
            << "africa-north-africa", "africa-egypt", "africa-east-africa",
            "africa-congo", "africa-south-africa", "africa-madagascar" >>],
        [id |-> "northern-asia",
         territories |->
            << "northern-asia-ural", "northern-asia-siberia", "northern-asia-yakutsk",
            "northern-asia-kamchatka" >>],
        [id |-> "middle-east",
         territories |->
            << "middle-east-middle-east", "middle-east-afghanistan" >>],
        [id |-> "india",
         territories |->
            << "india-india" >>],
        [id |-> "central-asia",
         territories |->
            << "central-asia-mongolia", "central-asia-china", "central-asia-irkutsk" >>],
        [id |-> "australia",
         territories |->
            << "australia-indonesia", "australia-new-guinea",
            "australia-western-australia", "australia-eastern-australia",
            "australia-siam" >>] >>,
     territories |-> <<
        [id |-> "western-north-america-alaska",
         continent |-> "western-north-america",
         adjacentTo |->
            << "central-north-america-northwest-territory",
            "central-north-america-alberta", "northern-asia-kamchatka" >>],
        [id |-> "western-north-america-western-united-states",
         continent |-> "western-north-america",
         adjacentTo |->
            << "central-north-america-alberta", "central-north-america-ontario",
            "western-north-america-eastern-united-states",
            "central-america-central-america" >>],
        [id |-> "western-north-america-eastern-united-states",
         continent |-> "western-north-america",
         adjacentTo |->
            << "central-north-america-ontario", "central-north-america-eastern-canada",
            "western-north-america-western-united-states",
            "central-america-central-america" >>],
        [id |-> "central-north-america-northwest-territory",
         continent |-> "central-north-america",
         adjacentTo |->
            << "western-north-america-alaska", "central-north-america-alberta",
            "central-north-america-ontario", "arctic-greenland" >>],
        [id |-> "central-north-america-alberta",
         continent |-> "central-north-america",
         adjacentTo |->
            << "western-north-america-alaska",
            "central-north-america-northwest-territory",
            "central-north-america-ontario",
            "western-north-america-western-united-states" >>],
        [id |-> "central-north-america-ontario",
         continent |-> "central-north-america",
         adjacentTo |->
            << "central-north-america-northwest-territory",
            "central-north-america-alberta", "central-north-america-eastern-canada",
            "arctic-greenland", "western-north-america-western-united-states",
            "western-north-america-eastern-united-states" >>],
        [id |-> "central-north-america-eastern-canada",
         continent |-> "central-north-america",
         adjacentTo |->
            << "central-north-america-ontario", "arctic-greenland",
            "western-north-america-eastern-united-states" >>],
        [id |-> "arctic-greenland",
         continent |-> "arctic",
         adjacentTo |->
            << "central-north-america-northwest-territory",
            "central-north-america-ontario", "central-north-america-eastern-canada",
            "arctic-iceland" >>],
        [id |-> "arctic-iceland",
         continent |-> "arctic",
         adjacentTo |->
            << "arctic-greenland", "europe-great-britain", "arctic-scandinavia" >>],
        [id |-> "arctic-scandinavia",
         continent |-> "arctic",
         adjacentTo |->
            << "arctic-iceland", "europe-great-britain", "europe-northern-europe",
            "europe-russia" >>],
        [id |-> "europe-great-britain",
         continent |-> "europe",
         adjacentTo |->
            << "arctic-iceland", "arctic-scandinavia", "europe-northern-europe",
            "europe-western-europe" >>],
        [id |-> "europe-northern-europe",
         continent |-> "europe",
         adjacentTo |->
            << "europe-great-britain", "arctic-scandinavia", "europe-western-europe",
            "europe-southern-europe", "europe-russia" >>],
        [id |-> "europe-western-europe",
         continent |-> "europe",
         adjacentTo |->
            << "europe-great-britain", "europe-northern-europe",
            "europe-southern-europe", "africa-north-africa" >>],
        [id |-> "europe-southern-europe",
         continent |-> "europe",
         adjacentTo |->
            << "europe-northern-europe", "europe-western-europe", "europe-russia",
            "africa-north-africa", "africa-egypt", "middle-east-middle-east" >>],
        [id |-> "europe-russia",
         continent |-> "europe",
         adjacentTo |->
            << "arctic-scandinavia", "europe-northern-europe", "europe-southern-europe",
            "northern-asia-ural", "middle-east-afghanistan", "middle-east-middle-east"
            >>],
        [id |-> "central-america-central-america",
         continent |-> "central-america",
         adjacentTo |->
            << "western-north-america-western-united-states",
            "western-north-america-eastern-united-states", "south-america-venezuela" >>],
        [id |-> "south-america-venezuela",
         continent |-> "south-america",
         adjacentTo |->
            << "central-america-central-america", "south-america-peru",
            "south-america-brazil" >>],
        [id |-> "south-america-peru",
         continent |-> "south-america",
         adjacentTo |->
            << "south-america-venezuela", "south-america-brazil",
            "south-america-argentina" >>],
        [id |-> "south-america-brazil",
         continent |-> "south-america",
         adjacentTo |->
            << "south-america-venezuela", "south-america-peru",
            "south-america-argentina", "africa-north-africa" >>],
        [id |-> "south-america-argentina",
         continent |-> "south-america",
         adjacentTo |->
            << "south-america-peru", "south-america-brazil" >>],
        [id |-> "africa-north-africa",
         continent |-> "africa",
         adjacentTo |->
            << "south-america-brazil", "europe-western-europe",
            "europe-southern-europe", "africa-egypt", "africa-east-africa",
            "africa-congo" >>],
        [id |-> "africa-egypt",
         continent |-> "africa",
         adjacentTo |->
            << "europe-southern-europe", "africa-north-africa", "africa-east-africa",
            "middle-east-middle-east" >>],
        [id |-> "africa-east-africa",
         continent |-> "africa",
         adjacentTo |->
            << "africa-north-africa", "africa-egypt", "africa-congo",
            "africa-south-africa", "africa-madagascar", "middle-east-middle-east" >>],
        [id |-> "africa-congo",
         continent |-> "africa",
         adjacentTo |->
            << "africa-north-africa", "africa-east-africa", "africa-south-africa" >>],
        [id |-> "africa-south-africa",
         continent |-> "africa",
         adjacentTo |->
            << "africa-congo", "africa-east-africa", "africa-madagascar" >>],
        [id |-> "africa-madagascar",
         continent |-> "africa",
         adjacentTo |->
            << "africa-east-africa", "africa-south-africa" >>],
        [id |-> "northern-asia-ural",
         continent |-> "northern-asia",
         adjacentTo |->
            << "europe-russia", "northern-asia-siberia", "middle-east-afghanistan",
            "central-asia-china" >>],
        [id |-> "northern-asia-siberia",
         continent |-> "northern-asia",
         adjacentTo |->
            << "northern-asia-ural", "northern-asia-yakutsk", "central-asia-irkutsk",
            "central-asia-mongolia", "central-asia-china" >>],
        [id |-> "northern-asia-yakutsk",
         continent |-> "northern-asia",
         adjacentTo |->
            << "northern-asia-siberia", "central-asia-irkutsk",
            "northern-asia-kamchatka" >>],
        [id |-> "northern-asia-kamchatka",
         continent |-> "northern-asia",
         adjacentTo |->
            << "western-north-america-alaska", "northern-asia-yakutsk",
            "central-asia-irkutsk", "central-asia-mongolia" >>],
        [id |-> "middle-east-middle-east",
         continent |-> "middle-east",
         adjacentTo |->
            << "europe-southern-europe", "europe-russia", "africa-egypt",
            "africa-east-africa", "middle-east-afghanistan", "india-india" >>],
        [id |-> "middle-east-afghanistan",
         continent |-> "middle-east",
         adjacentTo |->
            << "europe-russia", "northern-asia-ural", "central-asia-china",
            "middle-east-middle-east", "india-india" >>],
        [id |-> "india-india",
         continent |-> "india",
         adjacentTo |->
            << "middle-east-afghanistan", "central-asia-china",
            "middle-east-middle-east", "australia-siam" >>],
        [id |-> "central-asia-irkutsk",
         continent |-> "central-asia",
         adjacentTo |->
            << "northern-asia-siberia", "northern-asia-yakutsk",
            "northern-asia-kamchatka", "central-asia-mongolia" >>],
        [id |-> "central-asia-mongolia",
         continent |-> "central-asia",
         adjacentTo |->
            << "northern-asia-siberia", "central-asia-irkutsk",
            "northern-asia-kamchatka", "central-asia-china" >>],
        [id |-> "central-asia-china",
         continent |-> "central-asia",
         adjacentTo |->
            << "northern-asia-ural", "northern-asia-siberia", "central-asia-mongolia",
            "middle-east-afghanistan", "india-india", "australia-siam" >>],
        [id |-> "australia-siam",
         continent |-> "australia",
         adjacentTo |->
            << "central-asia-china", "india-india", "australia-indonesia" >>],
        [id |-> "australia-indonesia",
         continent |-> "australia",
         adjacentTo |->
            << "australia-siam", "australia-new-guinea", "australia-western-australia"
            >>],
        [id |-> "australia-new-guinea",
         continent |-> "australia",
         adjacentTo |->
            << "australia-indonesia", "australia-western-australia",
            "australia-eastern-australia" >>],
        [id |-> "australia-western-australia",
         continent |-> "australia",
         adjacentTo |->
            << "australia-indonesia", "australia-new-guinea",
            "australia-eastern-australia" >>],
        [id |-> "australia-eastern-australia",
         continent |-> "australia",
         adjacentTo |->
            << "australia-new-guinea", "australia-western-australia" >>] >>]

\* a document for assets/board/original-topology.json that loads, and one whose
\* adjacency list names a territory the board does not have
originalTopology ==
    [version  |-> "original",
     metadata |-> [totalTerritories |-> 2, lastUpdated |-> BaseDate],
     continents |-> << [id |-> "k1", territories |-> << "x", "y" >>] >>,
     territories |-> <<
        [id |-> "x", continent |-> "k1", adjacentTo |-> << "y" >>],
        [id |-> "y", continent |-> "k1", adjacentTo |-> << "x" >>] >>]

danglingTopology ==
    [originalTopology EXCEPT
        !.territories[2] = [id |-> "y", continent |-> "k1", adjacentTo |-> << "x", "z" >>]]

\* what readFileSync and BoardSchema.parse leave of a topology file: a board,
\* or nothing when the file is missing or fails the schema
BoardFiles ==
    [original : { [status |-> "unreadable"],
                  [status |-> "parsed", board |-> originalTopology],
                  [status |-> "parsed", board |-> danglingTopology] },
     advanced : { [status |-> "unreadable"],
                  [status |-> "parsed", board |-> advancedTopology] }]

\* loadBoardTopology(version): the instance, or a throw from the read, the
\* parse or the constructor
loadBoardTopology(files, version) ==
    IF files[version].status = "parsed"
    THEN Constructed(files[version].board)
    ELSE [status |-> "threw"]

\* the address of the n-th instance constructed
InstanceAt(n) == Region(n, 0)

\* the module variable of a version
CacheOf(version) ==
    IF version = "original" THEN "cachedOriginalBoard" ELSE "cachedAdvancedBoard"

\* mutant of getBoardTopology: the advanced board is loaded on every call
getBoardTopologyReloads(m, h, version) ==
    LET cached == m[CacheOf(version)]
        loaded == loadBoardTopology(m.files, version)
        at     == InstanceAt(m.loads + 1)
    IN  IF cached # 0 /\ version = "original"
        THEN [module |-> m, heap |-> h, threw |-> FALSE, result |-> cached]
        ELSE IF loaded.status = "threw"
        THEN [module |-> m, heap |-> h, threw |-> TRUE, result |-> 0]
        ELSE [module |-> [m EXCEPT ![CacheOf(version)] = at, !.loads = @ + 1],
              heap   |-> (at :> loaded) @@ h,
              threw  |-> FALSE,
              result |-> at]

\* getBoardTopology(version): the cached instance, or a newly loaded one
\* that is cached before it is returned; a throw of the load leaves the
\* module variable as it was
getBoardTopology(m, h, version) ==
    LET cached == m[CacheOf(version)]
        loaded == loadBoardTopology(m.files, version)
        at     == InstanceAt(m.loads + 1)
    IN  IF cached # 0
        THEN [module |-> m, heap |-> h, threw |-> FALSE, result |-> cached]
        ELSE IF loaded.status = "threw"
        THEN [module |-> m, heap |-> h, threw |-> TRUE, result |-> 0]
        ELSE [module |-> [m EXCEPT ![CacheOf(version)] = at, !.loads = @ + 1],
              heap   |-> (at :> loaded) @@ h,
              threw  |-> FALSE,
              result |-> at]

\* clearBoardCache()
clearBoardCache(m) ==
    [m EXCEPT !.cachedOriginalBoard = 0, !.cachedAdvancedBoard = 0]

\* Math.round((total / length) * 10) / 10, in tenths; 0 / 0 is NaN
RECURSIVE TotalAdjacencies(_, _)
TotalAdjacencies(territories, i) ==
    IF i = 0 THEN 0
    ELSE TotalAdjacencies(territories, i - 1) + Len(territories[i].adjacentTo)

calculateAverageAdjacencies(t) ==
    LET n     == Len(t.board.territories)
        total == TotalAdjacencies(t.board.territories, n)
    IN  IF n = 0 THEN [nan |-> TRUE]
        ELSE [nan |-> FALSE, tenths |-> (20 * total + n) \div (2 * n)]

\* the continentStats of getStatistics()
continentStats(t) ==
    [i \in 1..Len(t.board.continents) |->
        [id |-> t.board.continents[i].id,
         territoryCount |-> Len(t.board.continents[i].territories)]]

\* getStatistics()
getStatistics(t) ==
    [version            |-> t.board.version,
     totalTerritories   |-> Len(t.board.territories),
     totalContinents    |-> Len(t.board.continents),
     continentStats     |-> continentStats(t),
     averageAdjacencies |-> calculateAverageAdjacencies(t)]

\* a caller asks the module for a board
GetBoardTopology(version) ==
    /\ topology.status = "module"
    /\ Len(calls) < MaxBoardCalls
    /\ LET r == getBoardTopology(topology, heap, version)
       IN  /\ topology' = r.module
           /\ heap' = r.heap
           /\ calls' = Append(calls, [op |-> "getBoardTopology", version |-> version,
                                      threw |-> r.threw, result |-> r.result])
    /\ UNCHANGED << baseRules, modifierCache, compiledCache, rulebooks,
                    baseFile, packFiles, lastReturn, cleared, clears, trial, answer, auth >>

ClearBoardCache ==
    /\ topology.status = "module"
    /\ Len(calls) < MaxBoardCalls
    /\ topology' = clearBoardCache(topology)
    /\ calls' = Append(calls, [op |-> "clearBoardCache", version |-> "",
                               threw |-> FALSE, result |-> 0])
    /\ UNCHANGED << heap, baseRules, modifierCache, compiledCache, rulebooks,
                    baseFile, packFiles, lastReturn, cleared, clears, trial, answer, auth >>

\* a caller asks a board it was given for its statistics
GetStatistics(version) ==
    /\ topology.status = "module"
    /\ topology[CacheOf(version)] # 0
    /\ answer' = Answer("getStatistics", << version >>, "",
                        getStatistics(heap[topology[CacheOf(version)]]))
    /\ UNCHANGED << heap, baseRules, modifierCache, compiledCache, rulebooks, calls,
                    baseFile, packFiles, lastReturn, cleared, clears, trial, topology, auth >>

InitModule ==
    /\ heap = GlobalObjects
    /\ baseRules = 0
    /\ modifierCache = << >>
    /\ compiledCache = << >>
    /\ rulebooks = << >>
    /\ calls = << >>
    /\ baseFile = "valid"
    /\ packFiles = [packName \in PackNames |-> PackFile(packName)]
    /\ users = << >>
    /\ requests = << >>
    /\ clock = 0
    /\ lastReturn = 0
    /\ cleared = [calls |-> 0, objects |-> {}, rulebooks |-> {}, log |-> << >>]
    /\ clears = 0
    /\ trial = Unused
    /\ \E files \in BoardFiles :
          topology = [status |-> "module", files |-> files, loads |-> 0,
                      cachedOriginalBoard |-> 0, cachedAdvancedBoard |-> 0]
    /\ answer = Unused

NextModule ==
    \/ \E version \in Versions : GetBoardTopology(version)
    \/ ClearBoardCache
    \/ \E version \in Versions : GetStatistics(version)

SpecModule == InitModule /\ [][NextModule]_vars

-----------------------------------------------------------------------------
(* Properties of the board module.                                         *)

\* the i-th call asked for a board and got one
Got(i) ==
    /\ calls[i].op = "getBoardTopology"
    /\ ~calls[i].threw

\* clearBoardCache() was called between the i-th and the j-th call
ClearedBetween(i, j) ==
    \E k \in (i + 1)..(j - 1) : calls[k].op = "clearBoardCache"

\* C22: getBoardTopology(version) returns the same instance on every call for
\* that version until clearBoardCache() is called, and a new instance after
\* it; the instances of the two versions are different objects; after
\* clearBoardCache() both module variables are empty; after a load that threw
\* the variable of that version is empty.
C22_SingletonPerVersion ==
    topology.status = "module" =>
        /\ \A i, j \in 1..Len(calls) :
              (i < j /\ Got(i) /\ Got(j)) =>
                 IF calls[i].version = calls[j].version
                 THEN (calls[i].result = calls[j].result) <=> ~ClearedBetween(i, j)
                 ELSE calls[i].result # calls[j].result
        /\ \A i \in 1..Len(calls) :
              Got(i) => /\ calls[i].result \in DOMAIN heap
                        /\ heap[calls[i].result].status = "constructed"
                        /\ heap[calls[i].result].board.version = calls[i].version
        /\ (calls # << >> /\ calls[Len(calls)].op = "clearBoardCache") =>
              /\ topology.cachedOriginalBoard = 0
              /\ topology.cachedAdvancedBoard = 0
        /\ (calls # << >> /\ calls[Len(calls)].op = "getBoardTopology"
                          /\ calls[Len(calls)].threw) =>
              topology[CacheOf(calls[Len(calls)].version)] = 0

\* a board is returned twice, a load of the other version throws, the cache
\* is cleared and the board is asked for again
C22_Witness ==
    /\ topology.status = "module"
    /\ Len(calls) = 5
    /\ Got(1) /\ Got(2) /\ calls[1].version = calls[2].version
    /\ calls[3].op = "getBoardTopology" /\ calls[3].threw
    /\ calls[4].op = "clearBoardCache"
    /\ Got(5) /\ calls[5].version = calls[1].version
    /\ calls[5].result # calls[1].result

\* C28: the advanced board document lists as many territories as its
\* metadata.totalTerritories says, 42, and 12 continents, and getStatistics()
\* on the loaded advanced board reports totalTerritories = 42 and
\* totalContinents = 12.
C28_AdvancedBoardCounts ==
    (/\ topology.status = "module"
     /\ Answered("getStatistics")
     /\ answer.args = << "advanced" >>)
    => /\ Len(advancedTopology.territories) = advancedTopology.metadata.totalTerritories
       /\ answer.result.totalTerritories = 42
       /\ answer.result.totalContinents = 12

-----------------------------------------------------------------------------
(* Search: RulebookBuilder.searchRules and the POST /search handler, over  *)
(* a rulebook parsed from a document.                                      *)

\* String.prototype.toLowerCase, on the characters the documents use
LowerChar(ch) ==
    CASE ch = "A" -> "a"
      [] ch = "B" -> "b"
      [] OTHER -> ch

toLowerCase(s) == [i \in 1..Len(s) |-> LowerChar(s[i])]

\* q occurs in s at the 0-based position p
OccursAt(s, q, p) ==
    /\ p + Len(q) <= Len(s)
    /\ SubSeq(s, p + 1, p + Len(q)) = q

\* String.prototype.indexOf: the first position, -1 when there is none
indexOf(s, q) ==
    IF \E p \in 0..Len(s) : OccursAt(s, q, p)
    THEN CHOOSE p \in 0..Len(s) :
            /\ OccursAt(s, q, p)
            /\ \A p2 \in 0..(p - 1) : ~OccursAt(s, q, p2)
    ELSE -1

\* String.prototype.includes
includes(s, q) == indexOf(s, q) >= 0

\* Array.prototype.includes
ArrayIncludes(arr, x) == \E i \in 1..Len(arr) : arr[i] = x

\* an optional parameter: left out, or given
Absent == [given |-> FALSE]
Given(v) == [given |-> TRUE, value |-> v]

\* a rule as RuleSchema.parse leaves it
TaggedRule(id, text, tags) == [Rule(id, text) EXCEPT !.tags = tags]

\* rulebook documents to search: rule ids all different, and one id held by
\* rules of two sections (RulebookSchema does not compare ids)
SearchDoc(lastId) ==
    [version |-> BaseVersion, lastUpdated |-> BaseDate,
     sections |-> <<
        [key |-> "combat", value |->
            [id |-> "combat", title |-> "Combat", subsections |-> <<
                [key |-> "attacking", value |->
                    [title |-> "Attacking",
                     rules |-> << TaggedRule("r1", << "b", "a" >>, << "t" >>),
                                  TaggedRule("r2", << "A", "b" >>, << >>) >>]],
                [key |-> "defending", value |->
                    [title |-> "Defending",
                     rules |-> << TaggedRule("r3", << "A" >>, << "u" >>) >>]] >>]],
        [key |-> "setup", value |->
            [id |-> "setup", title |-> "Setup", subsections |-> <<
                [key |-> "placement", value |->
                    [title |-> "Placement",
                     rules |-> << TaggedRule("r4", << "a", "b" >>, << "t", "u" >>),
                                  TaggedRule(lastId, << "b" >>, << "t" >>) >>]] >>]] >>]

SearchDocs == { BaseDoc, SearchDoc("r5"), SearchDoc("r1") }

\* what a caller may pass
Queries == { << >>, << "a" >>, << "A", "b" >>, << "B" >>, << "c" >> }
SectionFilters ==
    { Absent, Given(<< >>), Given(<< "combat" >>), Given(<< "setup" >>),
      Given(<< "nosuch" >>), Given(<< "setup", "combat" >>) }
TagFilters ==
    { Absent, Given(<< >>), Given(<< "t" >>), Given(<< "u" >>),
      Given(<< "t", "u" >>), Given(<< "v" >>) }

\* mutant of TagMatch: every requested tag is required
TagMatchEvery(rule, tags) ==
    IF tags.given /\ Len(tags.value) > 0
    THEN \A i \in 1..Len(tags.value) : ArrayIncludes(rule.tags, tags.value[i])
    ELSE TRUE

\* tagMatch: tags.some(tag => rule.tags.includes(tag)) when tags are given
TagMatch(rule, tags) ==
    IF tags.given /\ Len(tags.value) > 0
    THEN \E i \in 1..Len(tags.value) : ArrayIncludes(rule.tags, tags.value[i])
    ELSE TRUE

\* the section is skipped by the sections filter
Skipped(sectionId, sections) ==
    /\ sections.given
    /\ Len(sections.value) > 0
    /\ ~ArrayIncludes(sections.value, sectionId)

\* searchRules(rulebook, query, sections, tags)
searchRules(h, rb, query, sections, tags) ==
    LET queryLower == toLowerCase(query)
        visited    == SelectSeq(h[rb].sections, LAMBDA e : ~Skipped(e.key, sections))
        rules      == RulesOfAll(h, SubsectionRefs(h, visited))
    IN  SelectSeq(rules, LAMBDA rule :
            /\ includes(toLowerCase(rule.text), queryLower)
            /\ TagMatch(rule, tags))

\* relevance as a fraction: 1.0 for equal texts, else
\* 0.5 + (1 - position / textLower.length) * 0.4 = (9 * length - 4 * position)
\* / (10 * length); 0.5 when the query does not occur
Relevance(rule, query) ==
    LET queryLower == toLowerCase(query)
        textLower  == toLowerCase(rule.text)
        position   == indexOf(textLower, queryLower)
    IN  IF textLower = queryLower THEN [num |-> 10, den |-> 10]
        ELSE IF includes(textLower, queryLower)
        THEN [num |-> 9 * Len(textLower) - 4 * position, den |-> 10 * Len(textLower)]
        ELSE [num |-> 5, den |-> 10]

\* b.relevance - a.relevance > 0
Less(a, b) == a.num * b.den < b.num * a.den

\* the section path loop: the inner loop stops at the first subsection of a
\* section that holds the id, the outer loop goes on to the next section
RECURSIVE SectionPath(_, _, _, _)
SectionPath(h, secs, ruleId, path) ==
    IF secs = << >> THEN path
    ELSE LET subs == h[Head(secs).ref].subsections
             hit  == { i \in 1..Len(subs) :
                          \E k \in 1..Len(h[subs[i].ref].rules) :
                              h[subs[i].ref].rules[k].id = ruleId }
             first == CHOOSE i \in hit : \A j \in hit : i <= j
         IN  SectionPath(h, Tail(secs), ruleId,
                         IF hit = {} THEN path
                         ELSE << Head(secs).key, ".", subs[first].key >>)

RECURSIVE SortByRelevance(_)

\* mutant of SortByRelevance: the results stay in traversal order
Unsorted(results) == results

\* results.sort((a, b) => b.relevance - a.relevance): descending, stable
SortByRelevance(results) ==
    IF results = << >> THEN << >>
    ELSE LET sorted == SortByRelevance(SubSeq(results, 1, Len(results) - 1))
             x      == results[Len(results)]
             before == SelectSeq(sorted, LAMBDA y : ~Less(y.relevance, x.relevance))
             after  == SelectSeq(sorted, LAMBDA y : Less(y.relevance, x.relevance))
         IN  before \o << x >> \o after

\* the POST /search handler, from the rulebook on
searchHandler(h, rb, request) ==
    LET rules   == searchRules(h, rb, request.query, request.sections, request.tags)
        results == [i \in 1..Len(rules) |->
                       [section   |-> SectionPath(h, h[rb].sections, rules[i].id,
                                                  << "unknown" >>),
                        rule      |-> rules[i],
                        relevance |-> Relevance(rules[i], request.query)]]
        sorted  == SortByRelevance(results)
    IN  [results |-> sorted, total |-> Len(sorted)]

\* a caller searches the rulebook
SearchRules(query, sections, tags) ==
    /\ trial.status = "loaded"
    /\ answer' = Answer("searchRules", [query |-> query, sections |-> sections,
                                        tags |-> tags], "",
                        [rules |-> searchRules(heap, trial.rulebook, query, sections,
                                               tags)])
    /\ UNCHANGED << heap, baseRules, modifierCache, compiledCache, rulebooks, calls,
                    baseFile, packFiles, lastReturn, cleared, clears, trial, topology, auth >>

\* a client posts a search request (SearchRequestSchema: a query of at
\* least one character)
PostSearch(query, sections, tags) ==
    /\ trial.status = "loaded"
    /\ Len(query) >= 1
    /\ LET request == [query |-> query, sections |-> sections, tags |-> tags]
       IN  answer' = Answer("search", request, "",
                            searchHandler(heap, trial.rulebook, request))
    /\ UNCHANGED << heap, baseRules, modifierCache, compiledCache, rulebooks, calls,
                    baseFile, packFiles, lastReturn, cleared, clears, trial, topology, auth >>

InitSearch ==
    /\ \E doc \in SearchDocs :
          LET r == MaterializeRulebook(GlobalObjects, doc, Region(1, 0))
          IN  /\ heap = r.heap
              /\ trial = [status |-> "loaded", rulebook |-> r.ref]
    /\ baseRules = 0
    /\ modifierCache = << >>
    /\ compiledCache = << >>
    /\ rulebooks = << >>
    /\ calls = << >>
    /\ baseFile = "valid"
    /\ packFiles = [packName \in PackNames |-> PackFile(packName)]
    /\ users = << >>
    /\ requests = << >>
    /\ clock = 0
    /\ lastReturn = 0
    /\ cleared = [calls |-> 0, objects |-> {}, rulebooks |-> {}, log |-> << >>]
    /\ clears = 0
    /\ topology = Unused
    /\ answer = Unused

NextSearch ==
    \/ \E query \in Queries, sections \in SectionFilters, tags \in TagFilters :
          SearchRules(query, sections, tags)
    \/ \E query \in Queries, sections \in SectionFilters, tags \in TagFilters :
          PostSearch(query, sections, tags)

SpecSearch == InitSearch /\ [][NextSearch]_vars

-----------------------------------------------------------------------------
(* Properties of search.                                                   *)

\* every rule of the listed subsections with the ids of its section and
\* subsection, in order
RECURSIVE LocatedIn(_, _, _)
LocatedIn(h, sectionId, subs) ==
    IF subs = << >> THEN << >>
    ELSE [k \in 1..Len(h[Head(subs).ref].rules) |->
              [section    |-> sectionId,
               subsection |-> Head(subs).key,
               rule       |-> h[Head(subs).ref].rules[k]]]
         \o LocatedIn(h, sectionId, Tail(subs))

\* every rule of the rulebook with its place, in traversal order
RECURSIVE Located(_, _)
Located(h, secs) ==
    IF secs = << >> THEN << >>
    ELSE LocatedIn(h, Head(secs).key, h[Head(secs).ref].subsections)
         \o Located(h, Tail(secs))

\* the lower-cased text holds the lower-cased query at position p
HoldsAt(text, query, p) ==
    /\ p + Len(query) <= Len(text)
    /\ \A i \in 1..Len(query) : LowerChar(text[p + i]) = LowerChar(query[i])

\* conditions (a), (b) and (c) of a match
Wanted(e, args) ==
    /\ \/ ~args.sections.given
       \/ args.sections.value = << >>
       \/ \E i \in 1..Len(args.sections.value) : args.sections.value[i] = e.section
    /\ \E p \in 0..Len(e.rule.text) : HoldsAt(e.rule.text, args.query, p)
    /\ \/ ~args.tags.given
       \/ args.tags.value = << >>
       \/ \E i \in 1..Len(args.tags.value), j \in 1..Len(e.rule.tags) :
             args.tags.value[i] = e.rule.tags[j]

\* the wanted rules in traversal order
WantedRules(h, rb, args) ==
    LET sel == SelectSeq(Located(h, h[rb].sections), LAMBDA e : Wanted(e, args))
    IN  [i \in 1..Len(sel) |-> sel[i].rule]

\* the rulebook is as the parse of its document left it
AsParsed ==
    \E doc \in SearchDocs :
        LET r == MaterializeRulebook(GlobalObjects, doc, Region(1, 0))
        IN  heap = r.heap /\ trial.rulebook = r.ref

\* C23: searchRules returns exactly the rules whose section passes the
\* sections filter, whose lower-cased text contains the lower-cased query and
\* which pass the tags filter, in traversal order, and the call leaves the
\* rulebook as it was.
C23_SearchRulesExact ==
    Answered("searchRules") =>
        /\ AsParsed
        /\ answer.result.rules = WantedRules(heap, trial.rulebook, answer.args)

\* a search with all three filters at work: a query in another case, two
\* sections, two tags, and a rule whose text matches left out for its tags
C23_Witness ==
    /\ Answered("searchRules")
    /\ answer.args.query = << "B" >>
    /\ answer.args.sections = Given(<< "setup", "combat" >>)
    /\ answer.args.tags = Given(<< "t", "u" >>)
    /\ Len(answer.result.rules) >= 3
    /\ \E e \in { Located(heap, heap[trial.rulebook].sections)[k] :
                    k \in 1..Len(Located(heap, heap[trial.rulebook].sections)) } :
          /\ HoldsAt(e.rule.text, answer.args.query, 1)
          /\ e.rule.tags = << >>

\* C24: with a sections filter S, every result of the search endpoint has a
\* section path "<sectionId>.<subsectionId>" whose sectionId is in S.
C24_PathInsideFilter ==
    (/\ Answered("search")
     /\ answer.args.sections.given
     /\ answer.args.sections.value # << >>)
    => \A i \in 1..Len(answer.result.results) :
          LET path == answer.result.results[i].section
          IN  /\ Len(path) = 3
              /\ path[2] = "."
              /\ ArrayIncludes(answer.args.sections.value, path[1])

\* the two fractions are the same number
SameNumber(a, b) == a.num * b.den = b.num * a.den

\* the least position at which the lower-cased text holds the query
MatchPosition(text, query) ==
    CHOOSE p \in 0..Len(text) :
        /\ HoldsAt(text, query, p)
        /\ \A p2 \in 0..(p - 1) : ~HoldsAt(text, query, p2)

\* the text equals the query case-insensitively
ExactMatch(text, query) ==
    /\ Len(text) = Len(query)
    /\ HoldsAt(text, query, 0)

\* the relevance the ranking rule gives a matching rule
StatedRelevance(rule, query) ==
    IF ExactMatch(rule.text, query) THEN [num |-> 1, den |-> 1]
    ELSE [num |-> 5 * Len(rule.text)
                  + 4 * (Len(rule.text) - MatchPosition(rule.text, query)),
          den |-> 10 * Len(rule.text)]

C30_PathOfFirstHolder ==
    Answered("search") =>
        \A i \in 1..Len(answer.result.results) :
            LET all     == Located(heap, heap[trial.rulebook].sections)
                holders == { k \in 1..Len(all) :
                               all[k].rule.id = answer.result.results[i].rule.id }
                first   == CHOOSE k \in holders : \A k2 \in holders : k <= k2
            IN  answer.result.results[i].section =
                    IF holders = {} THEN << "unknown" >>
                    ELSE << all[first].section, ".", all[first].subsection >>

-----------------------------------------------------------------------------
(* Properties of the builder: concurrent builds, failures, cache keys.     *)

\* JSON.stringify of a modifier
SerializeModifier(h, m) ==
    IF m.type \in {"add_section", "replace_section"}
    THEN [m EXCEPT !.data = SerializeSection(h, m.data)]
    ELSE IF m.type = "add_subsection"
    THEN [m EXCEPT !.data = SerializeSubsection(h, m.data)]
    ELSE m

SerializeModifiers(h, mods) == [k \in 1..Len(mods) |-> SerializeModifier(h, mods[k])]

\* the heap a build of packList leaves on a builder that has compiled
\* nothing yet
IsolatedHeap(packList) ==
    LET b  == MaterializeRulebook(<< >>, BaseDoc, Region(0, 0))
        cl == DeepClone(b.heap, b.ref, Region(0, 1))
    IN  CompilePacks(cl.heap, cl.ref, packList, 1, << >>)

\* the modifiers of the k-th pack of such a build: a pack is parsed where
\* the list names it first
IsolatedPack(packList, k) ==
    LET first == CHOOSE n \in 1..k :
                    /\ packList[n] = packList[k]
                    /\ \A n2 \in 1..(n - 1) : packList[n2] # packList[k]
    IN  IF PackFile(packList[k]).status = "valid"
        THEN MaterializePack(<< >>, PackFile(packList[k]).doc,
                             Region(0, 1 + first)).pack.modifiers
        ELSE << >>

RECURSIVE IsolatedModifierRefs(_, _)
IsolatedModifierRefs(packList, k) ==
    IF k = 0 THEN << >>
    ELSE IsolatedModifierRefs(packList, k - 1) \o IsolatedPack(packList, k)

\* the modifiers list of such a build, as it serializes after the build
IsolatedModifiers(packList) ==
    SerializeModifiers(IsolatedHeap(packList),
                       IsolatedModifierRefs(packList, Len(packList)))

\* an isolated build of the pack list a call was given (the list is sorted
\* by the call) would return what call k returned
AsIsolated(k) ==
    LET packList == ArraySort(calls[k].packsArg)
    IN  /\ rulebooks[k].returned = IsolatedCompile(packList)
        /\ SerializeModifiers(heap, rulebooks[k].modifiers) = IsolatedModifiers(packList)
        /\ rulebooks[k].version =
              IF packList = << >> THEN BaseVersion
              ELSE BaseVersion \o << "+" >> \o Join(packList, << "+" >>)

\* C26: when two calls for the same campaign id and pack list overlap (both
\* compile: the later one started before the earlier one had stored its
\* result, and no cache was cleared), each returns, and the cache ends up
\* holding, a CampaignRulebook whose sections, modifiers list and version are
\* those of an isolated build of that pack list.
C26_ConcurrentBuildsEquivalent ==
    \A i, j \in 1..Len(calls) :
        (/\ i < j
         /\ clears = 0
         /\ Built(i) /\ Built(j)
         /\ calls[i].campaignId = calls[j].campaignId
         /\ calls[i].packsArg = calls[j].packsArg)
        => /\ AsIsolated(i)
           /\ AsIsolated(j)
           /\ calls[j].cacheKey \in DOMAIN compiledCache
           /\ compiledCache[calls[j].cacheKey] \in {i, j}
           /\ SerializeSections(heap,
                  rulebooks[compiledCache[calls[j].cacheKey]].compiledRulebook)
              = IsolatedCompile(ArraySort(calls[j].packsArg))

\* C27: when the base rulebook document is missing or fails validation,
\* every build that needs it fails (the error of loadBaseRules rejects it),
\* no base rulebook and no CampaignRulebook is stored, and each later call
\* calls loadBaseRules again.
C27_BaseFailurePropagates ==
    baseFile = "invalid" =>
        /\ baseRules = 0
        /\ compiledCache = << >>
        /\ rulebooks = << >>
        /\ \A j \in 1..Len(calls) :
              /\ calls[j].pc \in {"readBase", "failed"}
              /\ calls[j].repoCalls = 1
              /\ calls[j].baseRules = 0
              /\ calls[j].result = 0

\* two builds failed one after the other on the same unreadable document
C27_Witness ==
    /\ baseFile = "invalid"
    /\ Len(calls) = 2
    /\ calls[1].pc = "failed"
    /\ calls[2].pc = "failed"
    /\ calls[2].repoCalls = 1

\* the set of the names in a pack list
PackSet(packList) == { packList[n] : n \in 1..Len(packList) }

\* C29: the CampaignRulebook a call buildCampaignRulebook(c, P) returns has
\* campaignId = c and was compiled from exactly the packs in P, for all
\* campaign ids and pack names; a call with no packs returns the unmodified
\* base sections, whatever was built before.
C29_OwnEntryPerCampaignAndPacks ==
    \A j \in 1..Len(calls) :
        Done(j) =>
            LET r == rulebooks[calls[j].result]
            IN  /\ r.campaignId = calls[j].campaignId
                /\ PackSet(r.unlockedPacks) = PackSet(calls[j].packsArg)
                /\ calls[j].packsArg = << >> =>
                      /\ r.modifiers = << >>
                      /\ SerializeSections(heap, r.compiledRulebook) = BaseDoc.sections

-----------------------------------------------------------------------------
(* Further properties of applyModifier.                                    *)

-----------------------------------------------------------------------------
(* Further properties of the builder.                                      *)

\* C32: a CampaignRulebook is a fixed snapshot once returned: no step of a
\* later build changes the compiled sections or the modifiers list of a
\* CampaignRulebook returned before, or a document the pack-modifier cache
\* held when the step began.
C32_ReturnedRulebooksFixed ==
    [][rulebooks # << >> =>
        /\ \A r \in DOMAIN rulebooks :
              /\ SerializeSections(heap', rulebooks[r].compiledRulebook)
                 = SerializeSections(heap, rulebooks[r].compiledRulebook)
              /\ SerializeModifiers(heap', rulebooks[r].modifiers)
                 = SerializeModifiers(heap, rulebooks[r].modifiers)
        /\ \A packName \in DOMAIN modifierCache :
              SerializeModifiers(heap', modifierCache[packName].modifiers)
              = SerializeModifiers(heap, modifierCache[packName].modifiers)]_vars

\* C33: a clear is not undone by a build in flight: the compiled cache never
\* holds an entry written by a call that had started when clearCache() ran,
\* nor an entry for campaign c written by a call that had started when
\* clearCampaignCache(c) ran.
C33_ClearNotUndone ==
    \A n \in 1..Len(cleared.log), key \in DOMAIN compiledCache :
        LET writer == compiledCache[key]
        IN  ~(/\ writer <= cleared.log[n].calls
              /\ \/ cleared.log[n].all
                 \/ rulebooks[writer].campaignId = cleared.log[n].campaignId)

-----------------------------------------------------------------------------
(* Further properties of BoardTopology.                                    *)

\* the entries of the continent lists, as (continent position, list position)
ListEntries(board) ==
    UNION { { << i, j >> : j \in 1..Len(board.continents[i].territories) } :
            i \in 1..Len(board.continents) }

\* how many entries of the continent lists name the territory id under the
\* continent id
ListedBy(board, continentId, territoryId) ==
    Cardinality({ e \in ListEntries(board) :
                    /\ board.continents[e[1]].id = continentId
                    /\ board.continents[e[1]].territories[e[2]] = territoryId })

\* how many entries of the continent lists name the territory id at all
Listed(board, territoryId) ==
    Cardinality({ e \in ListEntries(board) :
                    board.continents[e[1]].territories[e[2]] = territoryId })

RECURSIVE SumOfCounts(_, _)
SumOfCounts(stats, i) ==
    IF i = 0 THEN 0 ELSE stats[i].territoryCount + SumOfCounts(stats, i - 1)

\* C34: on a board whose verifyIntegrity() says isValid, the continents
\* partition the territories: every territory is listed exactly once, by the
\* continent its continent field names, and the territoryCount values of
\* getStatistics() sum to its totalTerritories.
C34_ContinentsPartitionTerritories ==
    (Answered("verifyIntegrity") /\ answer.result.isValid) =>
        LET board == topology.board
        IN  /\ \A i \in 1..Len(board.territories) :
                  /\ Listed(board, board.territories[i].id) = 1
                  /\ ListedBy(board, board.territories[i].continent,
                              board.territories[i].id) = 1
            /\ SumOfCounts(continentStats(topology), Len(board.continents))
               = Len(board.territories)

\* C35: on a constructed board validateMovement(a, b) and
\* areTerritoriesAdjacent(a, b) return the same value for every pair of ids,
\* known or not; getAdjacentTerritories(t) for a territory t of the board does
\* not throw, and the ids of the territories it returns are exactly the ids x
\* with areTerritoriesAdjacent(t, x), each returned as the board holds it.
C35_MovementIsAdjacency ==
    /\ Answered("validateMovement") =>
          answer.result = areTerritoriesAdjacent(topology, answer.args[1], answer.args[2])
    /\ Answered("areTerritoriesAdjacent") =>
          answer.result = validateMovement(topology, answer.args[1], answer.args[2])
    /\ (Answered("getAdjacentTerritories") /\ answer.args[1] \in IdsOf(topology.board)) =>
          /\ answer.threw = ""
          /\ { answer.result[i].id : i \in 1..Len(answer.result) }
             = { x \in ReferenceIds : areTerritoriesAdjacent(topology, answer.args[1], x) }
          /\ \A i \in 1..Len(answer.result) :
                answer.result[i] = topology.territoryMap[answer.result[i].id]

\* the adjacent territories of a territory were asked for on a board with two
\* territories, and only one of the two came back
C35_Witness ==
    /\ Answered("getAdjacentTerritories")
    /\ answer.threw = ""
    /\ Len(answer.result) = 1
    /\ Cardinality(IdsOf(topology.board)) = 2
    /\ \E x \in IdsOf(topology.board) :
          ~areTerritoriesAdjacent(topology, answer.args[1], x)

\* every document in the pack-modifier cache was read from a pack file that
\* passed validation, and is that document and not the empty pack
CacheHoldsLoadedPacks ==
    \A packName \in DOMAIN modifierCache :
        /\ packFiles[packName].status = "valid"
        /\ modifierCache[packName].pack = packFiles[packName].doc.pack
        /\ modifierCache[packName].name = packFiles[packName].doc.name
        /\ modifierCache[packName].description = packFiles[packName].doc.description
        /\ Len(modifierCache[packName].modifiers) = Len(packFiles[packName].doc.modifiers)
        /\ modifierCache[packName] # EmptyPackModifiers(packName)

\* a loadPackModifiers call that starts in this step for a pack the cache
\* does not hold goes to the file; one whose read settles in this step
\* returns and caches the document of a valid file, and returns the empty
\* pack, caching nothing, for any other
PackLoadRetried ==
    \A id \in 1..Len(calls) :
        /\ (/\ calls'[id].repoCalls = calls[id].repoCalls + 1
            /\ calls[id].pc \in { "awaitBase", "awaitPack" })
           => LET packName == calls'[id].unlockedPacks[calls'[id].i]
              IN  IF packName \in DOMAIN modifierCache
                  THEN /\ calls'[id].pc = "awaitPack"
                       /\ calls'[id].packModifiers = modifierCache[packName]
                  ELSE calls'[id].pc = "readPack"
        /\ (calls[id].pc = "readPack" /\ calls'[id].pc # "readPack")
           => LET packName == calls[id].unlockedPacks[calls[id].i]
              IN  IF packFiles[packName].status = "valid"
                  THEN /\ packName \in DOMAIN modifierCache'
                       /\ calls'[id].packModifiers = modifierCache'[packName]
                       /\ calls'[id].packModifiers.description
                          = packFiles[packName].doc.description
                  ELSE /\ calls'[id].packModifiers = EmptyPackModifiers(packName)
                       /\ packName \notin DOMAIN modifierCache'

\* C36: the pack-modifier cache only ever holds documents that were loaded
\* and passed schema validation; the empty pack returned for a missing or
\* invalid pack is never cached, so every loadPackModifiers call for such a
\* pack reads the file again and returns the pack once its file is there.
C36_FallbackNeverCached ==
    /\ []CacheHoldsLoadedPacks
    /\ [][PackLoadRetried]_vars

\* a build of a pack without a file returned no modifiers, the file was
\* written, and a later build of the same pack returned the pack's modifiers
C36_Witness ==
    \E i, j \in 1..Len(calls) :
        /\ i < j
        /\ Built(i) /\ Built(j)
        /\ calls[i].packsArg = calls[j].packsArg
        /\ Len(calls[i].packsArg) = 1
        /\ rulebooks[i].modifiers = << >>
        /\ rulebooks[j].modifiers # << >>
        /\ calls[j].packsArg[1] \in DOMAIN modifierCache

-----------------------------------------------------------------------------
(* add_rule followed by remove_rule.                                       *)

\* the subsection is a property of its own of the section's subsections, and
\* the section one of the rulebook's sections
ExistingSubsection(h, rb, sectionId, subsectionId) ==
    /\ MapHas(h[rb].sections, sectionId)
    /\ MapHas(SubsectionsOf(h, MapGet(h[rb].sections, sectionId)), subsectionId)

\* the last two applications were add_rule of an id the rulebook did not
\* hold, into an existing subsection, and remove_rule of that id
AddedThenRemoved ==
    /\ trial.status \in { "applied", "threw" }
    /\ trial.modifier.type = "remove_rule"
    /\ trial.previous.status \in { "applied", "threw" }
    /\ trial.previous.modifier.type = "add_rule"
    /\ trial.previous.modifier.rule.id = trial.modifier.rule_id
    /\ FirstHolder(trial.previous.before, trial.rulebook, trial.modifier.rule_id) = 0
    /\ ExistingSubsection(trial.previous.before, trial.rulebook,
                          trial.previous.modifier.section_id,
                          trial.previous.modifier.subsection_id)

\* C37: add_rule of a rule whose id occurs nowhere in the rulebook, into an
\* existing subsection, followed by remove_rule of that id, leaves the
\* sections as they were before the add; between the two getRuleById
\* returns the added rule, and after them it returns null.
C37_AddThenRemoveRestores ==
    AddedThenRemoved =>
        /\ trial.status = "applied"
        /\ trial.previous.status = "applied"
        /\ SerializeSections(heap, trial.rulebook)
           = SerializeSections(trial.previous.before, trial.rulebook)
        /\ getRuleById(trial.before, trial.rulebook, trial.modifier.rule_id)
           = trial.previous.modifier.rule
        /\ getRuleById(heap, trial.rulebook, trial.modifier.rule_id) = Null

\* a rule was added to a subsection that held other rules and removed
\* again, after an earlier modifier had changed the rulebook
C37_Witness ==
    /\ AddedThenRemoved
    /\ trial.n = 3
    /\ SerializeSections(trial.previous.before, trial.rulebook) # BaseDoc.sections
    /\ SerializeSections(trial.before, trial.rulebook)
       # SerializeSections(heap, trial.rulebook)

-----------------------------------------------------------------------------
(* The auth routes: POST /register, POST /login, POST /refresh.  A handler  *)
(* is a process whose steps are the code between two database operations;  *)
(* requests interleave at their awaits.                                     *)

\* requests per behaviour
MaxRequests == 3

\* seconds the clock may advance
MaxClock == 1

\* REFRESH_TOKEN_EXPIRES_IN, in seconds
RefreshLifetime == 1

\* usernames and passwords that pass RegisterSchema
Usernames == { "ann", "bob" }
Passwords == { "pw", "other" }

\* bcrypt.hash(password, 10), as bcrypt.compare sees it: compare(password,
\* passwordHash) is true exactly for the password that was hashed
Hash(password) == [hashed |-> password]

\* new SignJWT({ userId, username, type }).setIssuedAt().setExpirationTime(...).sign(secret):
\* the token is determined by its payload and the second it is issued in
Token(userId, username, type, lifetime) ==
    [userId |-> userId, username |-> username, type |-> type,
     iat |-> clock, exp |-> clock + lifetime]

\* generateRefreshToken(userId, username)
generateRefreshToken(userId, username) ==
    [token     |-> Token(userId, username, "refresh", RefreshLifetime),
     expiresAt |-> clock + RefreshLifetime]

\* a string that is no token signed with JWT_REFRESH_SECRET
Forged == [userId |-> 1, username |-> "ann", type |-> "forged", iat |-> 0, exp |-> 0]

\* no token
NoToken == [userId |-> 0, username |-> "", type |-> "none", iat |-> 0, exp |-> 0]

\* verifyRefreshToken(token): jwtVerify checks the signature and exp, then the
\* type is compared; TRUE when a payload comes back
verifyRefreshToken(token) ==
    /\ token.type = "refresh"
    /\ token.exp > clock

\* prisma.user.findUnique({ where: { username } }): the row's position, 0 for null
FindByUsername(username) ==
    IF \E k \in 1..Len(users) : users[k].username = username
    THEN CHOOSE k \in 1..Len(users) : users[k].username = username
    ELSE 0

\* a request as it arrives
Request(op, username, password, token) ==
    [op |-> op, pc |-> "find", username |-> username, password |-> password,
     token     |-> token,      \* the refreshToken of the body (POST /refresh)
     user      |-> 0,          \* the user found or created
     generated |-> NoToken,    \* the refresh token generated for the response
     expiresAt |-> 0,
     status    |-> 0,          \* the status of the response
     issued    |-> NoToken,    \* the refreshToken of the response
     order     |-> 0,          \* history: the position of the response among all
     stored    |-> NoToken,    \* history: the user's stored token at the comparison
     storedExpiry |-> 0,
     at        |-> 0]          \* history: the clock at the response

\* the number of responses sent so far
Responses == Cardinality({ i \in 1..Len(requests) : requests[i].pc = "done" })

\* c.json(body, status)
Respond(i, status, issued) ==
    [requests EXCEPT ![i].pc = "done", ![i].status = status, ![i].issued = issued,
                     ![i].order = Responses + 1, ![i].at = clock]

Tick ==
    /\ clock < MaxClock
    /\ clock' = clock + 1
    /\ UNCHANGED << heap, baseRules, modifierCache, compiledCache, rulebooks, calls,
                    baseFile, packFiles, lastReturn, cleared, clears, trial, topology,
                    answer, users, requests >>

\* a request arrives at POST /register or POST /login
Post(op, username, password) ==
    /\ Len(requests) < MaxRequests
    /\ requests' = Append(requests, Request(op, username, password, NoToken))
    /\ UNCHANGED << heap, baseRules, modifierCache, compiledCache, rulebooks, calls,
                    baseFile, packFiles, lastReturn, cleared, clears, trial, topology,
                    answer, users, clock >>

\* POST /register up to the answer of findUnique
RegisterFind(i) ==
    /\ i \in 1..Len(requests)
    /\ requests[i].op = "register" /\ requests[i].pc = "find"
    /\ requests' = IF FindByUsername(requests[i].username) # 0
                   THEN Respond(i, 409, NoToken)
                   ELSE [requests EXCEPT ![i].pc = "create"]
    /\ UNCHANGED << heap, baseRules, modifierCache, compiledCache, rulebooks, calls,
                    baseFile, packFiles, lastReturn, cleared, clears, trial, topology,
                    answer, users, clock >>

\* POST /register: the password is hashed, a token is generated for the
\* user id '', and prisma.user.create runs; the unique index on username
\* makes it throw for a name that is taken, and the catch answers 500
RegisterCreate(i) ==
    /\ i \in 1..Len(requests)
    /\ requests[i].op = "register" /\ requests[i].pc = "create"
    /\ IF FindByUsername(requests[i].username) # 0
       THEN /\ requests' = Respond(i, 500, NoToken)
            /\ UNCHANGED users
       ELSE LET id == Len(users) + 1
                t  == generateRefreshToken(0, requests[i].username)
            IN  /\ users' = Append(users,
                                [id |-> id, username |-> requests[i].username,
                                 passwordHash |-> Hash(requests[i].password),
                                 refreshToken |-> t.token,
                                 refreshTokenExpiry |-> t.expiresAt,
                                 createdBy |-> i])   \* history: the request that created it
                /\ requests' = [requests EXCEPT ![i].pc = "generate", ![i].user = id]
    /\ UNCHANGED << heap, baseRules, modifierCache, compiledCache, rulebooks, calls,
                    baseFile, packFiles, lastReturn, cleared, clears, trial, topology,
                    answer, clock >>

\* POST /register and POST /login: generateRefreshToken(user.id, user.username)
Generate(i) ==
    /\ i \in 1..Len(requests)
    /\ requests[i].pc = "generate"
    /\ LET t == generateRefreshToken(requests[i].user, requests[i].username)
       IN  requests' = [requests EXCEPT ![i].pc = "update", ![i].generated = t.token,
                                        ![i].expiresAt = t.expiresAt]
    /\ UNCHANGED << heap, baseRules, modifierCache, compiledCache, rulebooks, calls,
                    baseFile, packFiles, lastReturn, cleared, clears, trial, topology,
                    answer, users, clock >>

\* POST /register: prisma.user.update stores the token; the access token is
\* generated next
RegisterUpdate(i) ==
    /\ i \in 1..Len(requests)
    /\ requests[i].op = "register" /\ requests[i].pc = "update"
    /\ users' = [users EXCEPT ![requests[i].user].refreshToken = requests[i].generated,
                              ![requests[i].user].refreshTokenExpiry = requests[i].expiresAt]
    /\ requests' = [requests EXCEPT ![i].pc = "respond"]
    /\ UNCHANGED << heap, baseRules, modifierCache, compiledCache, rulebooks, calls,
                    baseFile, packFiles, lastReturn, cleared, clears, trial, topology,
                    answer, clock >>

\* POST /register: the 201 response
RegisterRespond(i) ==
    /\ i \in 1..Len(requests)
    /\ requests[i].op = "register" /\ requests[i].pc = "respond"
    /\ requests' = Respond(i, 201, requests[i].generated)
    /\ UNCHANGED << heap, baseRules, modifierCache, compiledCache, rulebooks, calls,
                    baseFile, packFiles, lastReturn, cleared, clears, trial, topology,
                    answer, users, clock >>

\* POST /login up to the comparison of the password
LoginFind(i) ==
    /\ i \in 1..Len(requests)
    /\ requests[i].op = "login" /\ requests[i].pc = "find"
    /\ LET user == FindByUsername(requests[i].username)
       IN  requests' =
              IF user = 0 \/ users[user].passwordHash # Hash(requests[i].password)
              THEN Respond(i, 401, NoToken)
              ELSE [requests EXCEPT ![i].pc = "generate", ![i].user = users[user].id]
    /\ UNCHANGED << heap, baseRules, modifierCache, compiledCache, rulebooks, calls,
                    baseFile, packFiles, lastReturn, cleared, clears, trial, topology,
                    answer, users, clock >>

\* POST /login: prisma.user.update stores the token, and the response follows
LoginUpdate(i) ==
    /\ i \in 1..Len(requests)
    /\ requests[i].op = "login" /\ requests[i].pc = "update"
    /\ users' = [users EXCEPT ![requests[i].user].refreshToken = requests[i].generated,
                              ![requests[i].user].refreshTokenExpiry = requests[i].expiresAt]
    /\ requests' = Respond(i, 200, requests[i].generated)
    /\ UNCHANGED << heap, baseRules, modifierCache, compiledCache, rulebooks, calls,
                    baseFile, packFiles, lastReturn, cleared, clears, trial, topology,
                    answer, clock >>

\* the refresh tokens a client can hold: those of the responses so far
IssuedTokens ==
    { requests[i].issued : i \in { j \in 1..Len(requests) :
                                      requests[j].pc = "done" /\ requests[j].status \in {200, 201} } }

\* POST /refresh
PostRefresh(token) ==
    /\ Len(requests) < MaxRequests
    /\ LET i    == Len(requests) + 1
           \* findUnique({ where: { id } }): ids are given out in order of creation
           user == IF verifyRefreshToken(token) /\ token.userId \in 1..Len(users)
                   THEN token.userId ELSE 0
           r    == Append(requests, Request("refresh", token.username, "", token))
           seen == IF user = 0 THEN r
                   ELSE [r EXCEPT ![i].user = user,
                                  ![i].stored = users[user].refreshToken,
                                  ![i].storedExpiry = users[user].refreshTokenExpiry]
       IN  requests' =
              [(IF ~verifyRefreshToken(token) THEN seen
                ELSE IF user = 0 \/ users[user].refreshToken # token THEN seen
                ELSE IF users[user].refreshTokenExpiry < clock THEN seen
                ELSE [seen EXCEPT ![i].status = 200])
               EXCEPT ![i].pc = "done",
                      ![i].status = IF @ = 200 THEN 200 ELSE 401,
                      ![i].order = Responses + 1,
                      ![i].at = clock]
    /\ UNCHANGED << heap, baseRules, modifierCache, compiledCache, rulebooks, calls,
                    baseFile, packFiles, lastReturn, cleared, clears, trial, topology,
                    answer, users, clock >>

InitAuth ==
    /\ heap = GlobalObjects
    /\ baseRules = 0
    /\ modifierCache = << >>
    /\ compiledCache = << >>
    /\ rulebooks = << >>
    /\ calls = << >>
    /\ baseFile = "valid"
    /\ packFiles = [packName \in PackNames |-> PackFile(packName)]
    /\ lastReturn = 0
    /\ cleared = [calls |-> 0, objects |-> {}, rulebooks |-> {}, log |-> << >>]
    /\ clears = 0
    /\ trial = Unused
    /\ topology = Unused
    /\ answer = Unused
    /\ users = << >>
    /\ requests = << >>
    /\ clock = 0

NextAuth ==
    \/ Tick
    \/ \E username \in Usernames, password \in Passwords : Post("register", username, password)
    \/ \E username \in Usernames, password \in Passwords : Post("login", username, password)
    \/ \E token \in IssuedTokens \cup { Forged } : PostRefresh(token)
    \/ \E i \in 1..MaxRequests : RegisterFind(i)
    \/ \E i \in 1..MaxRequests : RegisterCreate(i)
    \/ \E i \in 1..MaxRequests : Generate(i)
    \/ \E i \in 1..MaxRequests : RegisterUpdate(i)
    \/ \E i \in 1..MaxRequests : RegisterRespond(i)
    \/ \E i \in 1..MaxRequests : LoginFind(i)
    \/ \E i \in 1..MaxRequests : LoginUpdate(i)

SpecAuth == InitAuth /\ [][NextAuth]_vars

-----------------------------------------------------------------------------
(* Properties of the auth routes.                                          *)

\* request i has been answered
Responded(i) == i \in 1..Len(requests) /\ requests[i].pc = "done"

\* request i, a registration or login of the user, was answered with a
\* refresh token
IssuedTo(i, user) ==
    /\ Responded(i)
    /\ requests[i].op \in { "register", "login" }
    /\ requests[i].status \in { 200, 201 }
    /\ requests[i].user = user

\* C38: POST /refresh issues an access token only for the refresh token
\* stored for its user at that moment and not past its stored expiry; once
\* the user has logged in again, a refresh token issued by an earlier
\* registration or login of that user is answered 401.
C38_OnlyCurrentRefreshToken ==
    \A r \in 1..Len(requests) :
        (Responded(r) /\ requests[r].op = "refresh") =>
            /\ requests[r].status = 200 =>
                  /\ requests[r].user # 0
                  /\ requests[r].stored = requests[r].token
                  /\ requests[r].storedExpiry >= requests[r].at
            /\ \A i, j \in 1..Len(requests) :
                  (/\ IssuedTo(i, requests[r].token.userId)
                   /\ requests[i].issued = requests[r].token
                   /\ IssuedTo(j, requests[r].token.userId)
                   /\ requests[j].op = "login"
                   /\ requests[i].order < requests[j].order
                   /\ requests[j].order < requests[r].order)
                  => requests[r].status = 401

\* C39: under any interleaving of POST /register requests at most one user
\* exists per username, and every register request for a username taken by
\* another registration is answered 409 'Username already exists' and
\* creates no user.
C39_OneUserPerUsername ==
    /\ \A k, l \in 1..Len(users) : users[k].username = users[l].username => k = l
    /\ \A i \in 1..Len(requests) :
          (/\ Responded(i)
           /\ requests[i].op = "register"
           /\ \E k \in 1..Len(users) :
                 /\ users[k].username = requests[i].username
                 /\ users[k].createdBy # i)
          => /\ requests[i].status = 409
             /\ \A k \in 1..Len(users) : users[k].createdBy # i

====
